---------------------------- MODULE Spec2Model ----------------------------
(***************************************************************************)
(* Weekly scoring and trend comparison of the K-pop artist scoring         *)
(* repository: utils/scoring.py (score calculator, batch scorer) and       *)
(* analytics/weekly_score_tracker.py (snapshot comparator, trend           *)
(* aggregator); and its operations code: utils/error_handling.py (retry    *)
(* wrapper), scheduler.py (weekly workflow), utils/selenium_base.py        *)
(* (get_page) and utils/quota_manager.py (API quota).                      *)
(*                                                                         *)
(* Numbers.  Floats are modelled in fixed point.  A follower count is in   *)
(* thousands of followers, popularity in whole points, a weight in         *)
(* hundredths (0.25 is 25).  A follower sub-score is in hundredths of a    *)
(* point, a weighted sum in ten-thousandths of a point, and a rounded      *)
(* score in hundredths of a point (24.00 is 2400).  A float that may be    *)
(* NaN is a record [kind, val] with kind "num" or "nan".                   *)
(***************************************************************************)
EXTENDS Integers, Sequences, FiniteSets, TLC

VARIABLES
    row,             \* SpecScore: the pandas Series given to calculate_artist_score
    custom_weights,  \* SpecScore: the custom_weights argument
    score,           \* SpecScore: what calculate_artist_score returned
    df,              \* SpecBatch: the caller's DataFrame (one snapshot)
    score_column,    \* SpecBatch: the column the batch scorer was asked to attach
    scored,          \* SpecBatch: what the batch scorer returned
    rescored,        \* SpecBatch: what a second run of the batch scorer returned
    current_df,      \* SpecCompare: the current week's snapshot
    previous_df,     \* SpecCompare: the previous week's snapshot
    comparison,      \* SpecCompare: what compare_weekly_scores returned
    data_dir,        \* SpecTrends: the snapshot files of data/bigc_pipeline, by date part
    trends,          \* SpecTrends: what generate_weekly_trends returned (the trends_df
                     \* of the reports)
    output_file,     \* SpecTrends: the weekly_trends CSV file it wrote
    compared,        \* SpecTrends: the pairs of files given to compare_weekly_scores
    top_n,           \* the top_n argument of get_top_gainers_losers
    top_gainers,     \* what get_top_gainers_losers returned, first element
    top_losers,      \* what get_top_gainers_losers returned, second element
    summary,         \* what generate_weekly_summary returned
    max_attempts,    \* SpecRetry: the max_attempts argument of with_retry
    delay,           \* SpecRetry: the delay argument of with_retry
    backoff_factor,  \* SpecRetry: the backoff_factor argument of with_retry
    exceptions,      \* SpecRetry: the exception types with_retry was given
    func,            \* SpecRetry: what the wrapped function does, call by call
    wrapped,         \* SpecRetry: what one call of the wrapper did
    last_sns_collection,   \* KpopDataScheduler.last_sns_collection
    last_data_collection,  \* KpopDataScheduler.last_data_collection
    started,         \* SpecScheduler: the subprocesses and page loads started so far
    last_call,       \* SpecScheduler: what the latest call of the scheduler did
    quota_status,    \* APIQuotaManager.quota_status
    quota_file,      \* the file data/api_quota_status.json
    today,           \* the day datetime.now() is in
    saves,           \* how often save_quota_status has written the file
    quota_call,      \* the latest check_quota or use_quota call and its result
    request,         \* SpecSchedule: the arguments of the schedule_requests call
    pc,              \* SpecSchedule: where the schedule_requests call is
    optimal_batch,   \* SpecSchedule: schedule_requests' optimal_batch
    remaining_items, \* SpecSchedule: schedule_requests' remaining_items
    batches,         \* SpecSchedule: schedule_requests' batches
    scheduled        \* SpecSchedule: what schedule_requests returned

scoreVars == <<row, custom_weights, score>>

batchVars == <<df, score_column, scored, rescored>>

compareVars == <<current_df, previous_df, comparison>>

trendVars == <<data_dir, trends, output_file, compared>>

reportVars == <<top_n, top_gainers, top_losers, summary>>

retryVars == <<max_attempts, delay, backoff_factor, exceptions, func, wrapped>>

schedulerVars == <<last_sns_collection, last_data_collection, started, last_call>>

quotaVars == <<quota_status, quota_file, today, saves, quota_call>>

scheduleVars == <<request, pc, optimal_batch, remaining_items, batches, scheduled>>

\* the variables of error_handling.py, scheduler.py and quota_manager.py
opsVars == <<retryVars, schedulerVars, quotaVars, scheduleVars>>

\* the variables of scoring.py and weekly_score_tracker.py
scoringVars == <<scoreVars, batchVars, compareVars, trendVars, reportVars>>

vars == <<row, custom_weights, score, df, score_column, scored, rescored,
          current_df, previous_df, comparison, data_dir, trends, output_file,
          compared, top_n, top_gainers, top_losers, summary,
          max_attempts, delay, backoff_factor, exceptions, func, wrapped,
          last_sns_collection, last_data_collection, started, last_call,
          quota_status, quota_file, today, saves, quota_call,
          request, pc, optimal_batch, remaining_items, batches, scheduled>>

---------------------------------------------------------------------------
(* Values of a cell of a record *)

Num(n) == [kind |-> "num", val |-> n]
NaN == [kind |-> "nan", val |-> 0]
\* the key is not in the Series (row.get returns its default)
Absent == [kind |-> "absent", val |-> 0]
\* a str cell; val is its length ("" is falsy, "N/A" is not)
Text(n) == [kind |-> "text", val |-> n]
\* an exception leaving a computation
Raise == [kind |-> "raise", val |-> 0]
\* no call has returned yet
NotCalled == [kind |-> "none", val |-> 0]

\* pd.notna / pd.isna of a scalar (None and NaN are missing values)
pd_notna(x) == x.kind \notin {"absent", "nan"}

pd_isna(x) == x.kind \in {"absent", "nan"}

\* float arithmetic with NaN propagation
Mul(a, b) == IF a.kind = "nan" \/ b.kind = "nan" THEN NaN ELSE Num(a.val * b.val)

Add(a, b) == IF a.kind = "nan" \/ b.kind = "nan" THEN NaN ELSE Num(a.val + b.val)

\* Python's builtin min(a, b): b when b < a, else a (a comparison with NaN is False)
PyMin(a, b) == IF a.kind = "num" /\ b.kind = "num" /\ b.val < a.val THEN b ELSE a

\* Python's builtin max(a, b): b when b > a, else a
PyMax(a, b) == IF a.kind = "num" /\ b.kind = "num" /\ b.val > a.val THEN b ELSE a

\* round(x, 2) of a value in ten-thousandths: hundredths.  A sum exactly
\* halfway between two hundredths is rounded by the binary value of the
\* float; the sampled inputs give no such sum, ties go to even here
Round2(x) ==
    LET q == x \div 100
        r == x % 100
    IN  IF r < 50 THEN q
        ELSE IF r > 50 THEN q + 1
        ELSE IF q % 2 = 0 THEN q ELSE q + 1

---------------------------------------------------------------------------
(* config.py *)

WeightKeys == {"spotify_popularity", "instagram_followers",
               "twitter_followers", "spotify_followers"}

FollowerFields == {"instagram_followers", "twitter_followers", "spotify_followers"}

SCORING_CONFIG ==
    [spotify_popularity_weight |-> Num(30),
     instagram_followers_weight |-> Num(25),
     twitter_followers_weight |-> Num(20),
     spotify_followers_weight |-> Num(25),
     min_score |-> Num(0),
     max_score |-> Num(100 * 10000)]

\* 10_000_000 followers, in thousands
max_follower_threshold == 10000

\* custom_weights: None, or a dict from weight keys to floats
NoWeights == [kind |-> "None", w |-> [k \in {} |-> Num(0)]]

WeightDict(f) == [kind |-> "dict", w |-> f]

\* weights = custom_weights or {the configured defaults}: None and {} are falsy
EffectiveWeights(cw) ==
    IF cw.kind = "None" \/ DOMAIN cw.w = {}
    THEN [k \in WeightKeys |->
            CASE k = "spotify_popularity" -> SCORING_CONFIG.spotify_popularity_weight
              [] k = "instagram_followers" -> SCORING_CONFIG.instagram_followers_weight
              [] k = "twitter_followers" -> SCORING_CONFIG.twitter_followers_weight
              [] k = "spotify_followers" -> SCORING_CONFIG.spotify_followers_weight]
    ELSE cw.w

---------------------------------------------------------------------------
(* utils/scoring.py *)

\* a _calculate_follower_score that extrapolates past the threshold
FollowerScoreNoCap(followers, max_threshold) ==
    IF followers.kind = "num" /\ followers.val > 0
    THEN Num((followers.val * 100) \div (max_threshold \div 100))
    ELSE IF followers.kind = "text" /\ followers.val > 0 THEN Raise
    ELSE Num(0)

\* _calculate_follower_score: sub-score in hundredths of a point, or Raise
\* (a non-empty str reaches `followers <= 0`, a TypeError)
calculate_follower_score(followers, max_threshold) ==
    IF (followers.kind = "num" /\ followers.val = 0)
         \/ (followers.kind = "text" /\ followers.val = 0)
         \/ followers.kind = "absent"
    THEN Num(0)
    ELSE IF pd_isna(followers) THEN Num(0)
    ELSE IF followers.kind = "text" THEN Raise
    ELSE IF followers.val <= 0 THEN Num(0)
    ELSE PyMin(Num(100 * 100), Num((followers.val * 100) \div (max_threshold \div 100)))

\* row.get(key, default)
RowGet(r, key, default) == IF r[key].kind = "absent" THEN default ELSE r[key]

\* lines 39-40: the popularity term, in ten-thousandths (Num(0): nothing added)
PopularityTerm(r, weights) ==
    LET p == RowGet(r, "popularity", Absent)
    IN  IF ~pd_notna(p) THEN Num(0)
        ELSE IF "spotify_popularity" \notin DOMAIN weights THEN Raise
        ELSE IF p.kind = "text" THEN Raise
        ELSE Mul(Num(p.val * 100), weights["spotify_popularity"])

\* lines 43-58: one follower term, in ten-thousandths
FollowerTerm(r, fld, weights) ==
    LET s == calculate_follower_score(RowGet(r, fld, Num(0)), max_follower_threshold)
    IN  IF s.kind = "raise" THEN Raise
        ELSE IF fld \notin DOMAIN weights THEN Raise
        ELSE Mul(s, weights[fld])

\* a normalisation that forgets the ceiling
NormalizeNoCeiling(s) == PyMax(SCORING_CONFIG.min_score, s)

\* line 63: max(min_score, min(max_score, score))
Normalize(s) == PyMax(SCORING_CONFIG.min_score, PyMin(SCORING_CONFIG.max_score, s))

\* lines 37-65: the body of the try block; Raise when a step raises,
\* else the rounded score in hundredths
TryBody(r, weights) ==
    LET t0 == PopularityTerm(r, weights)
        t1 == FollowerTerm(r, "instagram_followers", weights)
        t2 == FollowerTerm(r, "twitter_followers", weights)
        t3 == FollowerTerm(r, "spotify_followers", weights)
    IN  IF \E t \in {t0, t1, t2, t3} : t.kind = "raise" THEN Raise
        ELSE Num(Round2(Normalize(Add(Add(Add(t0, t1), t2), t3)).val))

\* a calculate_artist_score whose try block has no handler
ScoreWithoutHandler(r, cw) == TryBody(r, EffectiveWeights(cw))

\* a calculate_artist_score that starts its sum from the score an earlier
\* run left in the record instead of 0
ScoreOnTopOfLastRun(r, cw) ==
    LET body == TryBody(r, EffectiveWeights(cw))
        last == IF r.total_score.kind = "num" THEN r.total_score.val
                ELSE IF r.calculated_score.kind = "num" THEN r.calculated_score.val
                ELSE 0
    IN  IF body.kind = "raise" THEN Num(0)
        ELSE IF body.val + last > 100 * 100 THEN Num(100 * 100)
        ELSE Num(body.val + last)

\* calculate_artist_score: except Exception -> return 0.0
calculate_artist_score(r, cw) ==
    LET body == TryBody(r, EffectiveWeights(cw))
    IN  IF body.kind = "raise" THEN Num(0) ELSE body

---------------------------------------------------------------------------
(* Inputs of the score calculator *)

PopularitySamples ==
    {Absent, NaN, Text(0), Text(3), Num(-20), Num(0), Num(80), Num(100), Num(250)}

\* thousands of followers: 4 is 4,000 and 500000 is 500,000,000
FollowerSamples ==
    {Absent, NaN, Text(0), Text(3), Num(-5000), Num(0), Num(4), Num(4000),
     Num(10000), Num(20000), Num(500000)}

MetricRow(p, i, t, s) ==
    [artist |-> "IVE", entertainment |-> "Starship", popularity |-> p,
     instagram_followers |-> i, twitter_followers |-> t, spotify_followers |-> s,
     total_score |-> Absent, calculated_score |-> Absent]

ScoreRows ==
    {MetricRow(p, i, t, s) : p \in PopularitySamples,
                             i \in FollowerSamples, t \in FollowerSamples,
                             s \in FollowerSamples}

WeightSamples ==
    {NoWeights,
     WeightDict([k \in {} |-> Num(0)]),
     WeightDict([k \in WeightKeys |-> Num(60)]),
     WeightDict([k \in WeightKeys |-> IF k = "twitter_followers" THEN Num(-50) ELSE Num(40)]),
     WeightDict([k \in WeightKeys |-> IF k = "spotify_followers" THEN NaN ELSE Num(25)]),
     WeightDict([k \in WeightKeys \ {"spotify_followers"} |-> Num(30)])}

---------------------------------------------------------------------------
(* The score calculator on one record *)

\* a DataFrame: the score columns it carries and its rows in order;
\* a cell of a column the frame does not carry is Absent
Frame(cols, rs) == [kind |-> "df", columns |-> cols, rows |-> rs]
\* None in place of a DataFrame
NoFrame == [kind |-> "None", columns |-> {}, rows |-> <<>>]
\* the call raised
RaisedFrame == [kind |-> "raise", columns |-> {}, rows |-> <<>>]
\* no call has returned yet
NoResult == [kind |-> "none", columns |-> {}, rows |-> <<>>]
\* generate_weekly_summary has not returned yet
NoSummary == [kind |-> "none"]

BatchVarsIdle ==
    /\ df = NoFrame
    /\ score_column = ""
    /\ scored = NoResult
    /\ rescored = NoResult

ScoreVarsIdle ==
    /\ row = MetricRow(Absent, Absent, Absent, Absent)
    /\ custom_weights = NoWeights
    /\ score = NotCalled

CompareVarsIdle ==
    /\ current_df = NoFrame
    /\ previous_df = NoFrame
    /\ comparison = NoResult

\* no file of that name in the directory
NoFile == [kind |-> "nofile", columns |-> {}, rows |-> <<>>]

\* the date parts (the last but one "_" field) of the file names the model uses;
\* 20251340 is no date
\* 20250226 is a second run in the week of 20250224
FileDateParts == {20250217, 20250224, 20250226, 20250303, 20251229, 20251340}

TrendVarsIdle ==
    /\ data_dir = [n \in FileDateParts |-> NoFile]
    /\ trends = NoResult
    /\ output_file = NoResult
    /\ compared = <<>>

\* no report has been asked for
ReportVarsIdle ==
    /\ top_n = 0
    /\ top_gainers = NoResult
    /\ top_losers = NoResult
    /\ summary = NoSummary

\* an empty dict
EmptyDict == [k \in {} |-> 0]

\* no wrapper has been built or called
RetryVarsIdle ==
    /\ max_attempts = 0
    /\ delay = 0
    /\ backoff_factor = 0
    /\ exceptions = {}
    /\ func = <<>>
    /\ wrapped = [kind |-> "none"]

\* no scheduler runs
SchedulerVarsIdle ==
    /\ last_sns_collection = "None"
    /\ last_data_collection = "None"
    /\ started = <<>>
    /\ last_call = [name |-> ""]

\* no quota manager has been built
QuotaVarsIdle ==
    /\ quota_status = EmptyDict
    /\ quota_file = [kind |-> "nofile"]
    /\ today = 0
    /\ saves = 0
    /\ quota_call = [name |-> ""]

\* schedule_requests is not called
ScheduleVarsIdle ==
    /\ request = [api |-> ""]
    /\ pc = "idle"
    /\ optimal_batch = 0
    /\ remaining_items = 0
    /\ batches = <<>>
    /\ scheduled = [kind |-> "none"]

OpsVarsIdle ==
    /\ RetryVarsIdle
    /\ SchedulerVarsIdle
    /\ QuotaVarsIdle
    /\ ScheduleVarsIdle

InitScore ==
    /\ row \in ScoreRows
    /\ custom_weights \in WeightSamples
    /\ score = NotCalled
    /\ BatchVarsIdle
    /\ CompareVarsIdle
    /\ TrendVarsIdle
    /\ ReportVarsIdle
    /\ OpsVarsIdle

CalculateArtistScore ==
    /\ score = NotCalled
    /\ score' = calculate_artist_score(row, custom_weights)
    /\ UNCHANGED <<row, custom_weights, batchVars, compareVars, trendVars, reportVars, opsVars>>

NextScore == CalculateArtistScore

SpecScore == InitScore /\ [][NextScore]_vars

---------------------------------------------------------------------------
(* Claims about the score calculator (SpecScore) *)

DefaultWeights == custom_weights = NoWeights \/ custom_weights = WeightDict([k \in {} |-> Num(0)])

\* C1: whatever the record (absent, NaN, zero, negative, text or far above
\* the threshold) and whatever the weight mapping (default, or custom and
\* summing to more than 1.0), the returned total_score is a number with
\* 0 <= total_score <= 100.
C1_ScoreInRange ==
    score # NotCalled => score.kind = "num" /\ 0 <= score.val /\ score.val <= 100 * 100

\* a record far above the threshold under weights summing to 2.4 scores 100
C1_Witness ==
    /\ score = Num(100 * 100)
    /\ custom_weights = WeightDict([k \in WeightKeys |-> Num(60)])
    /\ row.instagram_followers = Num(500000)
    /\ row.popularity = Num(250)

IsNumber(v) == v.kind = "num"

Missing(v) == v.kind \in {"absent", "nan"}

\* a record of the data model: popularity a number or missing, every
\* follower count a non-negative number or missing
InDataModel(r) ==
    /\ IsNumber(r.popularity) \/ Missing(r.popularity)
    /\ \A f \in FollowerFields : (IsNumber(r[f]) /\ r[f].val >= 0) \/ Missing(r[f])

IntMin(a, b) == IF a < b THEN a ELSE b

IntMax(a, b) == IF a > b THEN a ELSE b

\* f(x) = min(100, x / 10,000,000 * 100) in hundredths of a point, 0 when missing
RefF(v) == IF Missing(v) THEN 0 ELSE IntMin(100 * 100, v.val)

\* clamp_0_100(popularity*0.30 + f(ig)*0.25 + f(tw)*0.20 + f(sp)*0.25), rounded
RefScore(r) ==
    LET pop == IF Missing(r.popularity) THEN 0 ELSE r.popularity.val
        total == pop * 100 * 30 + RefF(r.instagram_followers) * 25
                     + RefF(r.twitter_followers) * 20 + RefF(r.spotify_followers) * 25
    IN  Round2(IntMax(0, IntMin(100 * 10000, total)))

OnlyField(r, f) == \A g \in (FollowerFields \cup {"popularity"}) \ {f} : r[g] = Absent

\* C2: with the default weights the score of a record of the data model is
\* clamp(popularity*0.30 + f(instagram)*0.25 + f(twitter)*0.20 + f(spotify)*0.25)
\* rounded to 2 decimals, f(x) = min(100, x/10,000,000*100), a missing field
\* counting 0: all fields absent give 0.0, popularity 80 alone 24.00,
\* 10,000,000 instagram followers alone 25.00, and a follower count at or
\* above 10,000,000 scores as exactly 10,000,000.
C2_DefaultFormula ==
    (score # NotCalled /\ DefaultWeights /\ InDataModel(row)) =>
        /\ score = Num(RefScore(row))
        /\ (\A f \in FollowerFields \cup {"popularity"} : row[f] = Absent) => score = Num(0)
        /\ (row.popularity = Num(80) /\ OnlyField(row, "popularity")) => score = Num(2400)
        /\ (row.instagram_followers = Num(10000) /\ OnlyField(row, "instagram_followers"))
               => score = Num(2500)
        /\ \A f \in FollowerFields :
               (IsNumber(row[f]) /\ row[f].val >= max_follower_threshold) =>
                   score = calculate_artist_score([row EXCEPT ![f] = Num(max_follower_threshold)],
                                                  custom_weights)

\* 20,000,000 instagram followers next to popularity 80: 24 + 25 = 49.00
C2_Witness ==
    /\ score = Num(4900)
    /\ custom_weights = NoWeights
    /\ row.popularity = Num(80)
    /\ row.instagram_followers = Num(20000)
    /\ row.twitter_followers = NaN
    /\ row.spotify_followers = Absent

\* C3: with the default weights, a field that is missing, NaN or text
\* contributes 0 to its own term only: the score is the score of the same
\* record with that field removed.
C3_BadFieldCountsZero ==
    (score # NotCalled /\ DefaultWeights) =>
        \A f \in FollowerFields \cup {"popularity"} :
            row[f].kind \in {"absent", "nan", "text"} =>
                score = calculate_artist_score([row EXCEPT ![f] = Absent], custom_weights)

---------------------------------------------------------------------------
(* The batch scorer: weekly_score_tracker.py calculate_weekly_scores and   *)
(* utils/scoring.py batch_calculate_scores                                 *)

\* df[col] = vals: the column is added (or overwritten) row by row
SetColumn(d, col, vals) ==
    [d EXCEPT !.columns = @ \cup {col},
              !.rows = [i \in 1..Len(d.rows) |-> [d.rows[i] EXCEPT ![col] = vals[i]]]]

\* df.apply(calculate_artist_score, axis=1): the scores in row order
ApplyScore(d) == [i \in 1..Len(d.rows) |-> calculate_artist_score(d.rows[i], NoWeights)]

\* an exception of one row leaves DataFrame.apply
ApplyRaises(d) == \E i \in 1..Len(d.rows) : ApplyScore(d)[i].kind = "raise"

\* a calculate_weekly_scores that writes the column into the caller's frame
CalculateWeeklyScoresInPlace(d) ==
    IF d.kind = "None" \/ Len(d.rows) = 0 THEN [input |-> d, output |-> d]
    ELSE IF ApplyRaises(d) THEN [input |-> d, output |-> RaisedFrame]
    ELSE [input |-> SetColumn(d, "total_score", ApplyScore(d)),
          output |-> SetColumn(d, "total_score", ApplyScore(d))]

\* calculate_weekly_scores: the caller's frame after the call and the frame
\* returned; None and an empty frame are returned as they are
calculate_weekly_scores(d) ==
    IF d.kind = "None" \/ Len(d.rows) = 0 THEN [input |-> d, output |-> d]
    ELSE LET df_copy == d
         IN  IF ApplyRaises(df_copy) THEN [input |-> d, output |-> RaisedFrame]
             ELSE [input |-> d,
                   output |-> SetColumn(df_copy, "total_score", ApplyScore(df_copy))]

\* a batch scorer for which an empty snapshot is an error
BatchRaisingOnEmpty(d, col) ==
    IF d.kind = "None" THEN [input |-> d, output |-> d]
    ELSE IF Len(d.rows) = 0 THEN [input |-> d, output |-> RaisedFrame]
    ELSE IF ApplyRaises(d) THEN [input |-> d, output |-> d]
    ELSE [input |-> d, output |-> SetColumn(d, col, ApplyScore(d))]

\* batch_calculate_scores: None has no copy() and an exception of apply is
\* caught, both return df as it is then; apply of an empty frame is an
\* empty column
batch_calculate_scores(d, col) ==
    IF d.kind = "None" THEN [input |-> d, output |-> d]
    ELSE LET df_copy == d
         IN  IF ApplyRaises(df_copy) THEN [input |-> d, output |-> df_copy]
             ELSE [input |-> d, output |-> SetColumn(df_copy, col, ApplyScore(df_copy))]

MaxRows == 3

BatchRow(a, e, p, i, t, s) ==
    [artist |-> a, entertainment |-> e, popularity |-> p,
     instagram_followers |-> i, twitter_followers |-> t, spotify_followers |-> s,
     total_score |-> Absent, calculated_score |-> Absent]

\* scores 24.00, 50.00, 0.0 (a text cell), 100.00, 0.0 (nothing collected)
BatchRowSamples ==
    {BatchRow("IVE", "Starship", Num(80), Absent, Absent, Absent),
     BatchRow("aespa", "SM", Num(100), Num(8000), NaN, Num(0)),
     BatchRow("NewJeans", "ADOR", Num(80), Text(3), Num(4000), Absent),
     BatchRow("BTS", "HYBE", Num(100), Num(500000), Num(20000), Num(10000)),
     BatchRow("LUCY", "Mystic", Absent, NaN, Absent, Absent)}

SeqsUpTo(S, n) == UNION {[1..k -> S] : k \in 0..n}

BatchFrames == {Frame({}, rs) : rs \in SeqsUpTo(BatchRowSamples, MaxRows)} \cup {NoFrame}

ScoreColumns == {"total_score", "calculated_score"}

InitBatch ==
    /\ df \in BatchFrames
    /\ score_column = ""
    /\ scored = NoResult
    /\ rescored = NoResult
    /\ ScoreVarsIdle
    /\ CompareVarsIdle
    /\ TrendVarsIdle
    /\ ReportVarsIdle
    /\ OpsVarsIdle

CalculateWeeklyScores ==
    /\ scored = NoResult
    /\ LET r == calculate_weekly_scores(df)
       IN  df' = r.input /\ scored' = r.output
    /\ score_column' = "total_score"
    /\ UNCHANGED <<rescored, scoreVars, compareVars, trendVars, reportVars, opsVars>>

BatchCalculateScores ==
    /\ scored = NoResult
    /\ \E col \in ScoreColumns :
          LET r == batch_calculate_scores(df, col)
          IN  df' = r.input /\ scored' = r.output /\ score_column' = col
    /\ UNCHANGED <<rescored, scoreVars, compareVars, trendVars, reportVars, opsVars>>

\* the batch scorer is run once more, on the caller's snapshot or on the
\* frame the first run returned, for the same score column
ScoreAgain ==
    /\ scored # NoResult
    /\ rescored = NoResult
    /\ \E again \in {"input", "output"} :
          LET d == IF again = "input" THEN df ELSE scored
          IN  \E r \in {batch_calculate_scores(d, score_column)} \cup
                        (IF score_column = "total_score"
                         THEN {calculate_weekly_scores(d)} ELSE {}) :
                  /\ rescored' = r.output
                  /\ df' = IF again = "input" THEN r.input ELSE df
                  /\ scored' = IF again = "output" THEN r.input ELSE scored
    /\ UNCHANGED <<score_column, scoreVars, compareVars, trendVars, reportVars, opsVars>>

NextBatch == CalculateWeeklyScores \/ BatchCalculateScores \/ ScoreAgain

SpecBatch == InitBatch /\ [][NextBatch]_vars

---------------------------------------------------------------------------
(* Claims about the batch scorer (SpecBatch) *)

DefaultConfigWeights == EffectiveWeights(NoWeights)

\* the row's weighted sum raises
RowRaises(r) == TryBody(r, DefaultConfigWeights).kind = "raise"

\* C4: the per-record computation never raises out of calculate_artist_score:
\* a record whose weighted sum raises scores exactly 0.0, the batch is not
\* aborted, and every other record of the batch gets the score it gets alone.
C4_BadRowScoresZero ==
    (scored # NoResult /\ df.kind = "df" /\ Len(df.rows) > 0) =>
        /\ scored.kind = "df"
        /\ Len(scored.rows) = Len(df.rows)
        /\ \A i \in 1..Len(df.rows) :
              scored.rows[i][score_column] =
                  IF RowRaises(df.rows[i]) THEN Num(0)
                  ELSE TryBody(df.rows[i], DefaultConfigWeights)

\* a batch with a text cell in its second row: 24.00, 0.0, 50.00
C4_Witness ==
    /\ scored.kind = "df"
    /\ Len(df.rows) = 3
    /\ RowRaises(df.rows[2])
    /\ scored.rows[1][score_column] = Num(2400)
    /\ scored.rows[2][score_column] = Num(0)
    /\ scored.rows[3][score_column] = Num(5000)

\* the record without its score columns
Metrics(r) == [r EXCEPT !.total_score = Absent, !.calculated_score = Absent]

\* C5: the batch scorer returns the records of its input in the input's
\* order, each with the score calculate_artist_score gives that record, and
\* the caller's snapshot is left as it was (no score column is added to it).
C5_BatchPreservesInput ==
    (scored # NoResult /\ df.kind = "df") =>
        /\ scored.kind = "df"
        /\ Len(scored.rows) = Len(df.rows)
        /\ df.columns = {}
        /\ \A i \in 1..Len(df.rows) :
              /\ df.rows[i] \in BatchRowSamples
              /\ Metrics(scored.rows[i]) = df.rows[i]
              /\ scored.rows[i][score_column] = calculate_artist_score(df.rows[i], NoWeights)
              /\ score_column \in scored.columns

\* three records come back in their order with 100.00, 24.00 and 0.0
C5_Witness ==
    /\ scored.kind = "df"
    /\ score_column = "total_score"
    /\ Len(df.rows) = 3
    /\ <<scored.rows[1].artist, scored.rows[2].artist, scored.rows[3].artist>>
           = <<"BTS", "IVE", "LUCY">>
    /\ <<scored.rows[1].total_score, scored.rows[2].total_score, scored.rows[3].total_score>>
           = <<Num(10000), Num(2400), Num(0)>>
    /\ df.columns = {}

\* the scores of a frame, in row order
ScoresOf(d, col) == [i \in 1..Len(d.rows) |-> d.rows[i][col]]

\* C14: a second run of the batch scorer, on the same snapshot or on the
\* frame the first run returned, gives every record the score the first run
\* gave it: the score depends on the metric values of the record only.
C14_SecondRunSameScores ==
    rescored # NoResult =>
        /\ rescored.kind = scored.kind
        /\ Len(rescored.rows) = Len(scored.rows)
        /\ Len(scored.rows) > 0 =>
               ScoresOf(rescored, score_column) = ScoresOf(scored, score_column)
        /\ \A i \in 1..Len(rescored.rows) : Metrics(rescored.rows[i]) = Metrics(scored.rows[i])

\* both runs give 50.00, 0.0 (a text cell) and 24.00
C14_Witness ==
    /\ rescored.kind = "df"
    /\ ScoresOf(scored, score_column) = <<Num(5000), Num(0), Num(2400)>>
    /\ ScoresOf(rescored, score_column) = <<Num(5000), Num(0), Num(2400)>>
    /\ RowRaises(df.rows[2])

\* C15: the batch scorer given a snapshot without records returns a frame
\* without records and raises no error (calculate_weekly_scores returns the
\* snapshot as it is, batch_calculate_scores a copy with an empty score column).
C15_EmptySnapshotGivesEmptyOutput ==
    (scored # NoResult /\ df = Frame({}, <<>>)) =>
        /\ scored.kind = "df"
        /\ scored.rows = <<>>
        /\ rescored # NoResult => (rescored.kind = "df" /\ rescored.rows = <<>>)

C15_Witness ==
    /\ df = Frame({}, <<>>)
    /\ scored = Frame({"calculated_score"}, <<>>)
    /\ rescored = Frame({"calculated_score"}, <<>>)

---------------------------------------------------------------------------
(* The snapshot comparator: weekly_score_tracker.py compare_weekly_scores  *)

RECURSIVE Gcd(_, _)
Gcd(a, b) == IF b = 0 THEN a ELSE Gcd(b, a % b)

Abs(n) == IF n < 0 THEN -n ELSE n

\* the float n / d (d > 0) as a fraction in lowest terms
Rate(n, d) ==
    LET g == Gcd(Abs(n), d)
    IN  [num |-> n \div g, den |-> d \div g]

RatePositive(r) == r.num > 0

RateNegative(r) == r.num < 0

\* the artist column in row order
ArtistSeq(d) == [i \in 1..Len(d.rows) |-> d.rows[i].artist]

ArtistSet(d) == {d.rows[i].artist : i \in 1..Len(d.rows)}

\* a loop over every artist of the current snapshot
CommonArtistsOfCurrent(cur, prev) == ArtistSeq(cur)

\* lines 67-71: current_scores.index.intersection(previous_scores.index),
\* the names of both indexes, in the order of the current snapshot
CommonArtists(cur, prev) ==
    SelectSeq(ArtistSeq(cur), LAMBDA a : a \in ArtistSet(prev))

\* df.set_index('artist')['total_score'][artist], in hundredths of a point
ScoreOf(d, a) == d.rows[CHOOSE i \in 1..Len(d.rows) : d.rows[i].artist = a].total_score.val

\* df[df['artist'] == artist].iloc[0]
ArtistInfo(d, a) ==
    d.rows[CHOOSE i \in 1..Len(d.rows) :
              /\ d.rows[i].artist = a
              /\ \A j \in 1..(i - 1) : d.rows[j].artist # a]

\* a change rate relative to the current score
ChangeRateOfCurrent(current_score, previous_score) ==
    IF current_score > 0
    THEN Rate((current_score - previous_score) * 100, current_score)
    ELSE IF previous_score = 0 THEN Rate(0, 1) ELSE Rate(-100, 1)

\* a change rate without the sentinel 100 of a zero baseline
ChangeRateWithoutSentinel(current_score, previous_score) ==
    IF previous_score > 0
    THEN Rate((current_score - previous_score) * 100, previous_score)
    ELSE Rate(0, 1)

\* lines 82-85: the change rate in percent
ChangeRate(current_score, previous_score) ==
    IF previous_score > 0
    THEN Rate((current_score - previous_score) * 100, previous_score)
    ELSE IF current_score = 0 THEN Rate(0, 1) ELSE Rate(100, 1)

\* a classification that calls a rate of exactly 100 stable
TrendBelowSentinel(change_rate) ==
    IF RatePositive(change_rate) /\ change_rate # Rate(100, 1) THEN "up"
    ELSE IF RateNegative(change_rate) THEN "down" ELSE "stable"

\* line 97: 'up' if change_rate > 0 else 'down' if change_rate < 0 else 'stable'
Trend(change_rate) ==
    IF RatePositive(change_rate) THEN "up"
    ELSE IF RateNegative(change_rate) THEN "down" ELSE "stable"

\* lines 78-98: the comparison of one common artist
TrendRecord(artist, cur, prev) ==
    LET current_score == ScoreOf(cur, artist)
        previous_score == ScoreOf(prev, artist)
        change_rate == ChangeRate(current_score, previous_score)
        artist_info == ArtistInfo(cur, artist)
    IN  [artist |-> artist,
         entertainment |-> artist_info.entertainment,
         current_score |-> current_score,
         previous_score |-> previous_score,
         score_change |-> current_score - previous_score,
         change_rate |-> change_rate,
         trend |-> Trend(change_rate)]

\* compare_weekly_scores: None for a None argument and for no common
\* artist; a frame without the total_score column is a KeyError, and so is
\* the look-up of an artist one of the two indexes does not have
compare_weekly_scores(cur, prev) ==
    IF cur.kind = "None" \/ prev.kind = "None" THEN NoFrame
    ELSE IF "total_score" \notin cur.columns \/ "total_score" \notin prev.columns
    THEN RaisedFrame
    ELSE LET common_artists == CommonArtists(cur, prev)
         IN  IF Len(common_artists) = 0 THEN NoFrame
             ELSE IF \E k \in 1..Len(common_artists) :
                        common_artists[k] \notin ArtistSet(cur) \cap ArtistSet(prev)
             THEN RaisedFrame
             ELSE Frame({}, [k \in 1..Len(common_artists) |->
                                TrendRecord(common_artists[k], cur, prev)])

\* the names a scraping run may give: two artists, and the first one re-scraped
\* under another spelling
ArtistNames == {"IVE", "ive", "AESPA"}

\* records scoring 0.0, 40.00 and 50.00
SnapshotMetrics ==
    {BatchRow("", "Unknown", Absent, NaN, Absent, Absent),
     BatchRow("", "SM", Num(100), Num(4000), Absent, Num(0)),
     BatchRow("", "Starship", Num(100), Num(8000), NaN, Absent)}

SnapshotRows ==
    {[m EXCEPT !.artist = a] : a \in {"IVE", "AESPA"}, m \in SnapshotMetrics}
        \cup {BatchRow("ive", "Starship", Num(100), Num(4000), Absent, Num(0))}

\* artist is the key of a snapshot: no two rows of one snapshot share it
UniqueArtists(rs) == \A i, j \in 1..Len(rs) : rs[i].artist = rs[j].artist => i = j

Snapshots ==
    {Frame({}, rs) : rs \in {q \in SeqsUpTo(SnapshotRows, MaxRows) : UniqueArtists(q)}}

InitCompare ==
    /\ current_df \in Snapshots \cup {NoFrame}
    /\ previous_df \in Snapshots \cup {NoFrame}
    /\ comparison = NoResult
    /\ ScoreVarsIdle
    /\ BatchVarsIdle
    /\ TrendVarsIdle
    /\ ReportVarsIdle
    /\ OpsVarsIdle

\* lines 125-126: both snapshots go through the batch scorer
ScoreSnapshots ==
    /\ comparison = NoResult
    /\ current_df' = calculate_weekly_scores(current_df).output
    /\ previous_df' = calculate_weekly_scores(previous_df).output
    /\ UNCHANGED <<comparison, scoreVars, batchVars, trendVars, reportVars, opsVars>>

CompareWeeklyScores ==
    /\ comparison = NoResult
    /\ comparison' = compare_weekly_scores(current_df, previous_df)
    /\ UNCHANGED <<current_df, previous_df, scoreVars, batchVars, trendVars, reportVars, opsVars>>

NextCompare == ScoreSnapshots \/ CompareWeeklyScores

SpecCompare == InitCompare /\ [][NextCompare]_vars

---------------------------------------------------------------------------
(* The trend aggregator: weekly_score_tracker.py get_weekly_data_files and *)
(* generate_weekly_trends                                                  *)

IsLeap(y) == y % 4 = 0 /\ (y % 100 # 0 \/ y % 400 = 0)

DaysInMonth(y, m) ==
    IF m = 2 THEN (IF IsLeap(y) THEN 29 ELSE 28)
    ELSE IF m \in {4, 6, 9, 11} THEN 30 ELSE 31

RECURSIVE DaysBeforeMonth(_, _)
DaysBeforeMonth(y, m) == IF m = 1 THEN 0 ELSE DaysBeforeMonth(y, m - 1) + DaysInMonth(y, m - 1)

DaysBeforeYear(y) == (y - 1) * 365 + (y - 1) \div 4 - (y - 1) \div 100 + (y - 1) \div 400

\* date.toordinal()
Ymd2Ord(y, m, d) == DaysBeforeYear(y) + DaysBeforeMonth(y, m) + d

\* the ordinal of the Monday of ISO week 1 of a year
IsoWeek1Monday(y) ==
    LET firstday == Ymd2Ord(y, 1, 1)
        firstweekday == (firstday + 6) % 7
        week1monday == firstday - firstweekday
    IN  IF firstweekday > 3 THEN week1monday + 7 ELSE week1monday

\* date_obj.isocalendar()[1]
IsoWeek(y, m, d) ==
    LET ordinal == Ymd2Ord(y, m, d)
        week == (ordinal - IsoWeek1Monday(y)) \div 7
    IN  IF week < 0 THEN (ordinal - IsoWeek1Monday(y - 1)) \div 7 + 1
        ELSE IF week >= 52 /\ ordinal >= IsoWeek1Monday(y + 1) THEN 1
        ELSE week + 1

\* datetime.strptime(date_part, '%Y%m%d'): ok is FALSE for a ValueError
ParseDate(n) ==
    LET y == n \div 10000
        m == (n \div 100) % 100
        d == n % 100
    IN  [ok |-> m \in 1..12 /\ d >= 1 /\ d <= DaysInMonth(y, m),
         year |-> y, month |-> m, day |-> d]

\* the order of two datetimes
DateKey(date) == date.year * 10000 + date.month * 100 + date.day

\* lines 40-44: the entry of one file; week is the label
\* f"{date_obj.year}년_{date_obj.isocalendar()[1]}주차" as <<year, week>>
FileEntry(n) ==
    LET date_obj == ParseDate(n)
    IN  [path |-> n,
         date |-> [year |-> date_obj.year, month |-> date_obj.month, day |-> date_obj.day],
         week |-> <<date_obj.year, IsoWeek(date_obj.year, date_obj.month, date_obj.day)>>]

\* a loop that keeps the files whose date part does not parse
RECURSIVE ParsedFilesKeepingAll(_)
ParsedFilesKeepingAll(files) ==
    IF files = <<>> THEN <<>>
    ELSE <<FileEntry(Head(files))>> \o ParsedFilesKeepingAll(Tail(files))

\* lines 34-46: the entries of the files whose date part parses, in glob order
RECURSIVE ParsedFiles(_)
ParsedFiles(files) ==
    IF files = <<>> THEN <<>>
    ELSE IF ParseDate(Head(files)).ok
    THEN <<FileEntry(Head(files))>> \o ParsedFiles(Tail(files))
    ELSE ParsedFiles(Tail(files))

\* one step of the stable sort: x goes behind the entries not later than it
RECURSIVE InsertByDate(_, _)
InsertByDate(x, sorted) ==
    IF sorted = <<>> THEN <<x>>
    ELSE IF DateKey(Head(sorted).date) <= DateKey(x.date)
    THEN <<Head(sorted)>> \o InsertByDate(x, Tail(sorted))
    ELSE <<x>> \o sorted

\* line 49: file_data.sort(key=lambda x: x['date'])
RECURSIVE SortByDate(_)
SortByDate(file_data) ==
    IF file_data = <<>> THEN <<>>
    ELSE InsertByDate(file_data[Len(file_data)], SortByDate(SubSeq(file_data, 1, Len(file_data) - 1)))

\* a get_weekly_data_files that returns the files in glob order
GetWeeklyDataFilesUnsorted(files) == ParsedFiles(files)

\* get_weekly_data_files, of the paths glob returned
get_weekly_data_files(files) == SortByDate(ParsedFiles(files))

\* lines 132-135: the rows of one comparison with the labels of its pair
TagRows(cmp, current_file, previous_file) ==
    [k \in 1..Len(cmp.rows) |->
        [artist |-> cmp.rows[k].artist,
         entertainment |-> cmp.rows[k].entertainment,
         current_score |-> cmp.rows[k].current_score,
         previous_score |-> cmp.rows[k].previous_score,
         score_change |-> cmp.rows[k].score_change,
         change_rate |-> cmp.rows[k].change_rate,
         trend |-> cmp.rows[k].trend,
         current_week |-> current_file.week,
         previous_week |-> previous_file.week,
         current_date |-> current_file.date,
         previous_date |-> previous_file.date]]

\* lines 114-129 for index i (2..n here): both files are read and scored, then compared
PairComparison(dir, file_data, i) ==
    compare_weekly_scores(calculate_weekly_scores(dir[file_data[i].path]).output,
                          calculate_weekly_scores(dir[file_data[i - 1].path]).output)

\* pd.concat(trends_data, ignore_index=True): the rows of the frames, in order
RECURSIVE ConcatFrames(_)
ConcatFrames(frames) ==
    IF frames = <<>> THEN <<>> ELSE Head(frames).rows \o ConcatFrames(Tail(frames))

\* lines 114-137 from index i on (2..n here): trends_data after the loop and
\* the pairs (previous, current) handed to compare_weekly_scores; kind is
\* "raise" when a comparison raised
RECURSIVE CompareLoop(_, _, _, _, _)
CompareLoop(dir, file_data, i, trends_data, pairs) ==
    IF i > Len(file_data)
    THEN [kind |-> "done", trends_data |-> trends_data, compared |-> pairs]
    ELSE LET cmp == PairComparison(dir, file_data, i)
             called == Append(pairs, <<file_data[i - 1].path, file_data[i].path>>)
         IN  IF cmp.kind = "raise"
             THEN [kind |-> "raise", trends_data |-> <<>>, compared |-> called]
             ELSE IF cmp.kind = "df"
             THEN CompareLoop(dir, file_data, i + 1,
                              Append(trends_data,
                                     Frame({}, TagRows(cmp, file_data[i], file_data[i - 1]))),
                              called)
             ELSE CompareLoop(dir, file_data, i + 1, trends_data, called)

\* lines 106-150, of the sorted file list: the value returned, whether
\* the CSV file was written and the pairs that were compared
TrendsOfFiles(dir, file_data) ==
    IF Len(file_data) < 2
    THEN [result |-> NoFrame, written |-> FALSE, compared |-> <<>>]
    ELSE LET loop == CompareLoop(dir, file_data, 2, <<>>, <<>>)
         IN  IF loop.kind = "raise"
             THEN [result |-> RaisedFrame, written |-> FALSE, compared |-> loop.compared]
             ELSE IF loop.trends_data # <<>>
             THEN [result |-> Frame({}, ConcatFrames(loop.trends_data)), written |-> TRUE,
                   compared |-> loop.compared]
             ELSE [result |-> NoFrame, written |-> FALSE, compared |-> loop.compared]

TrendRow(a, e, p, i) == BatchRow(a, e, p, i, Absent, NaN)

\* the snapshots of the weekly files: none, one or two artists, scoring
\* 40.00 or 50.00, and a file with a header and no row
TrendSnapshots ==
    {Frame({}, <<>>),
     Frame({}, <<TrendRow("IVE", "Starship", Num(100), Num(4000))>>),
     Frame({}, <<TrendRow("IVE", "Starship", Num(100), Num(8000))>>),
     Frame({}, <<TrendRow("AESPA", "SM", Num(100), Num(4000))>>),
     Frame({}, <<TrendRow("IVE", "Starship", Num(100), Num(4000)),
                 TrendRow("AESPA", "SM", Num(100), Num(4000))>>),
     Frame({}, <<TrendRow("AESPA", "SM", Num(100), Num(8000)),
                 TrendRow("IVE", "Starship", Num(100), Num(8000))>>)}

\* a file whose date part does not parse is never read
UnreadFiles == {NoFile, Frame({}, <<>>)}

\* the run of the week before the others, when there was one, collected IVE only
FirstRunDatePart == 20250217

FirstRunFiles == {NoFile, Frame({}, <<TrendRow("IVE", "Starship", Num(100), Num(4000))>>)}

\* the second run of a week (SpecMidweek only)
MidweekDatePart == 20250226

\* the names glob.glob found, in the order it returned them
GlobOrders(dir) ==
    LET present == {n \in DOMAIN dir : dir[n] # NoFile}
    IN  {q \in [1..Cardinality(present) -> present] :
            \A i, j \in 1..Cardinality(present) : q[i] = q[j] => i = j}

InitTrends ==
    /\ data_dir \in [FileDateParts -> TrendSnapshots \cup {NoFile}]
    /\ \A n \in FileDateParts : ~ParseDate(n).ok => data_dir[n] \in UnreadFiles
    /\ data_dir[FirstRunDatePart] \in FirstRunFiles
    /\ data_dir[MidweekDatePart] = NoFile
    /\ trends = NoResult
    /\ output_file = NoResult
    /\ compared = <<>>
    /\ ReportVarsIdle
    /\ OpsVarsIdle
    /\ ScoreVarsIdle
    /\ BatchVarsIdle
    /\ CompareVarsIdle

\* generate_weekly_trends: line 104 on whatever order glob lists the
\* directory in, lines 106-150 on the list it returns
GenerateWeeklyTrends ==
    /\ trends = NoResult
    /\ \E file_data \in {get_weekly_data_files(files) : files \in GlobOrders(data_dir)} :
          \E r \in {TrendsOfFiles(data_dir, file_data)} :
              /\ trends' = r.result
              /\ output_file' = IF r.written THEN r.result ELSE output_file
              /\ compared' = r.compared
    /\ UNCHANGED <<data_dir, reportVars, scoreVars, batchVars, compareVars, opsVars>>

---------------------------------------------------------------------------
(* The reports on a trend table: weekly_score_tracker.py                   *)
(* get_top_gainers_losers and generate_weekly_summary                      *)

\* str(n) as code points
RECURSIVE Digits(_)
Digits(n) == IF n < 10 THEN <<48 + n>> ELSE Digits(n \div 10) \o <<48 + (n % 10)>>

\* line 43: the code points of f"{date_obj.year}년_{date_obj.isocalendar()[1]}주차"
WeekLabel(w) == Digits(w[1]) \o <<45380, 95>> \o Digits(w[2]) \o <<51452, 52264>>

\* a < b for two str: the order of the first code point that differs, a
\* proper prefix being smaller
RECURSIVE StrLess(_, _)
StrLess(a, b) ==
    IF b = <<>> THEN FALSE
    ELSE IF a = <<>> THEN TRUE
    ELSE IF Head(a) # Head(b) THEN Head(a) < Head(b)
    ELSE StrLess(Tail(a), Tail(b))

WeeksOf(t) == {t.rows[k].current_week : k \in 1..Len(t.rows)}

\* the current_week of the last row of the table
LatestWeekOfLastRow(t) == t.rows[Len(t.rows)].current_week

\* lines 158, 175: trends_df['current_week'].max(), the greatest label as a str
LatestWeek(t) ==
    CHOOSE w \in WeeksOf(t) : \A v \in WeeksOf(t) : ~StrLess(WeekLabel(w), WeekLabel(v))

\* lines 159, 176: trends_df[trends_df['current_week'] == latest_week]
LatestTrends(t) ==
    LET latest_week == LatestWeek(t)
    IN  SelectSeq(t.rows, LAMBDA r : r.current_week = latest_week)

\* a < b for two change rates
RateLess(a, b) == a.num * b.den < b.num * a.den

Remove(rows, i) == SubSeq(rows, 1, i - 1) \o SubSeq(rows, i + 1, Len(rows))

\* Series.idxmax(): the first row holding the greatest change_rate
IdxMax(rows) ==
    CHOOSE i \in 1..Len(rows) :
        /\ \A j \in 1..Len(rows) : ~RateLess(rows[i].change_rate, rows[j].change_rate)
        /\ \A j \in 1..(i - 1) : RateLess(rows[j].change_rate, rows[i].change_rate)

\* Series.idxmin(): the first row holding the smallest change_rate
IdxMin(rows) ==
    CHOOSE i \in 1..Len(rows) :
        /\ \A j \in 1..Len(rows) : ~RateLess(rows[j].change_rate, rows[i].change_rate)
        /\ \A j \in 1..(i - 1) : RateLess(rows[i].change_rate, rows[j].change_rate)

\* an nlargest that prefers the later of two rows with equal change_rate
RECURSIVE NLargestKeepLast(_, _)
NLargestKeepLast(rows, n) ==
    IF n <= 0 \/ rows = <<>> THEN <<>>
    ELSE LET i == CHOOSE i \in 1..Len(rows) :
                      /\ \A j \in 1..Len(rows) :
                            ~RateLess(rows[i].change_rate, rows[j].change_rate)
                      /\ \A j \in (i + 1)..Len(rows) :
                            RateLess(rows[j].change_rate, rows[i].change_rate)
         IN  <<rows[i]>> \o NLargestKeepLast(Remove(rows, i), n - 1)

\* DataFrame.nlargest(n, 'change_rate'), keep='first': the n greatest in
\* descending order, equal values in the order of the frame
RECURSIVE NLargest(_, _)
NLargest(rows, n) ==
    IF n <= 0 \/ rows = <<>> THEN <<>>
    ELSE <<rows[IdxMax(rows)]>> \o NLargest(Remove(rows, IdxMax(rows)), n - 1)

\* DataFrame.nsmallest(n, 'change_rate'), keep='first'
RECURSIVE NSmallest(_, _)
NSmallest(rows, n) ==
    IF n <= 0 \/ rows = <<>> THEN <<>>
    ELSE <<rows[IdxMin(rows)]>> \o NSmallest(Remove(rows, IdxMin(rows)), n - 1)

\* a get_top_gainers_losers that cuts the caller's table down to the latest week
GetTopGainersLosersInPlace(trends_df, n) ==
    IF trends_df.kind = "None" \/ Len(trends_df.rows) = 0
    THEN [table |-> trends_df, gainers |-> NoFrame, losers |-> NoFrame]
    ELSE LET latest_trends == LatestTrends(trends_df)
         IN  [table |-> Frame({}, latest_trends),
              gainers |-> Frame({}, NLargest(latest_trends, n)),
              losers |-> Frame({}, NSmallest(latest_trends, n))]

\* get_top_gainers_losers: the caller's table after the call and the two
\* frames returned (None, None for no table or one without rows)
get_top_gainers_losers(trends_df, n) ==
    IF trends_df.kind = "None" \/ Len(trends_df.rows) = 0
    THEN [table |-> trends_df, gainers |-> NoFrame, losers |-> NoFrame]
    ELSE LET latest_trends == LatestTrends(trends_df)
         IN  [table |-> trends_df,
              gainers |-> Frame({}, NLargest(latest_trends, n)),
              losers |-> Frame({}, NSmallest(latest_trends, n))]

\* lines 82-85: the change_rate of a row is the int 0 or 100, not a float
IsIntRate(r) == ~(r.previous_score > 0)

\* the change_rate column of a table is int64 when every one of its values
\* is an int; Series.max() is a numpy.int64 then, which json.dump rejects
IntRates(t) == \A k \in 1..Len(t.rows) : IsIntRate(t.rows[k])

RateAdd(a, b) == Rate(a.num * b.den + b.num * a.den, a.den * b.den)

\* Series.mean() of score_change (in hundredths of a point)
RECURSIVE SumScoreChange(_)
SumScoreChange(rows) ==
    IF rows = <<>> THEN 0 ELSE Head(rows).score_change + SumScoreChange(Tail(rows))

RECURSIVE SumChangeRate(_)
SumChangeRate(rows) ==
    IF rows = <<>> THEN Rate(0, 1) ELSE RateAdd(Head(rows).change_rate, SumChangeRate(Tail(rows)))

\* Series.mean() of change_rate
MeanChangeRate(rows) ==
    LET total == SumChangeRate(rows) IN Rate(total.num, total.den * Len(rows))

\* a count that takes every row that is not 'up' for 'down'
CountNotUp(rows, trend) ==
    IF trend = "down" THEN Len(SelectSeq(rows, LAMBDA r : r.trend # "up"))
    ELSE Len(SelectSeq(rows, LAMBDA r : r.trend = trend))

\* len(latest_trends[latest_trends['trend'] == trend])
CountTrend(rows, trend) == Len(SelectSeq(rows, LAMBDA r : r.trend = trend))

NoneSummary == [kind |-> "None"]

RaisedSummary == [kind |-> "raise"]

\* a top_gainer taken from the last row holding the greatest change_rate
TopGainerOfLast(rows) ==
    rows[CHOOSE i \in 1..Len(rows) :
            /\ \A j \in 1..Len(rows) : ~RateLess(rows[i].change_rate, rows[j].change_rate)
            /\ \A j \in (i + 1)..Len(rows) :
                  RateLess(rows[j].change_rate, rows[i].change_rate)].artist

\* line 188: latest_trends.loc[latest_trends['change_rate'].idxmax(), 'artist']
TopGainer(rows) == rows[IdxMax(rows)].artist

\* line 189
TopLoser(rows) == rows[IdxMin(rows)].artist

\* generate_weekly_summary: the caller's table after the call and the
\* summary returned; json.dump raises TypeError on a numpy.int64 max_gain
generate_weekly_summary(trends_df) ==
    IF trends_df.kind = "None" \/ Len(trends_df.rows) = 0
    THEN [table |-> trends_df, summary |-> NoneSummary]
    ELSE LET latest_trends == LatestTrends(trends_df)
         IN  IF IntRates(trends_df) THEN [table |-> trends_df, summary |-> RaisedSummary]
             ELSE [table |-> trends_df,
                   summary |->
                      [kind |-> "summary",
                       week |-> LatestWeek(trends_df),
                       total_artists |-> Len(latest_trends),
                       avg_score_change |-> Rate(SumScoreChange(latest_trends),
                                                 Len(latest_trends)),
                       avg_change_rate |-> MeanChangeRate(latest_trends),
                       artists_up |-> CountTrend(latest_trends, "up"),
                       artists_down |-> CountTrend(latest_trends, "down"),
                       artists_stable |-> CountTrend(latest_trends, "stable"),
                       max_gain |-> latest_trends[IdxMax(latest_trends)].change_rate,
                       max_loss |-> latest_trends[IdxMin(latest_trends)].change_rate,
                       top_gainer |-> TopGainer(latest_trends),
                       top_loser |-> TopLoser(latest_trends)]]

\* top_n of line 152 (the default)
DefaultTopN == 10

TopNs == {1, 2, DefaultTopN}

GetTopGainersLosers ==
    /\ trends.kind \in {"df", "None"}
    /\ top_gainers = NoResult
    /\ \E n \in TopNs :
          \E r \in {get_top_gainers_losers(trends, n)} :
              /\ top_n' = n
              /\ trends' = r.table
              /\ top_gainers' = r.gainers
              /\ top_losers' = r.losers
    /\ UNCHANGED <<summary, data_dir, output_file, compared,
                   scoreVars, batchVars, compareVars, opsVars>>

GenerateWeeklySummary ==
    /\ trends.kind \in {"df", "None"}
    /\ summary = NoSummary
    /\ \E r \in {generate_weekly_summary(trends)} :
          /\ trends' = r.table
          /\ summary' = r.summary
    /\ UNCHANGED <<top_n, top_gainers, top_losers, data_dir, output_file, compared,
                   scoreVars, batchVars, compareVars, opsVars>>

NextTrends == GenerateWeeklyTrends \/ GetTopGainersLosers \/ GenerateWeeklySummary

SpecTrends == InitTrends /\ [][NextTrends]_vars

\* a directory with two runs in one week: 2025-02-24 and 2025-02-26, after
\* the run of 2025-02-17 and before the one of 2025-03-03
InitMidweek ==
    /\ data_dir \in [FileDateParts -> TrendSnapshots \cup {NoFile}]
    /\ data_dir[FirstRunDatePart] \in FirstRunFiles
    /\ data_dir[20250303] \in FirstRunFiles
    /\ data_dir[20251229] = NoFile
    /\ data_dir[20251340] = NoFile
    /\ trends = NoResult
    /\ output_file = NoResult
    /\ compared = <<>>
    /\ ReportVarsIdle
    /\ OpsVarsIdle
    /\ ScoreVarsIdle
    /\ BatchVarsIdle
    /\ CompareVarsIdle

SpecMidweek == InitMidweek /\ [][NextTrends]_vars

---------------------------------------------------------------------------
(* The reports on any trend table (SpecReports) *)

\* a row of a trend table: artist a scored cur after prev (hundredths of a
\* point) in the snapshots of the files c and p
ReportRow(a, cur, prev, c, p) ==
    TagRows(Frame({}, <<[artist |-> a,
                         entertainment |-> "Unknown",
                         current_score |-> cur,
                         previous_score |-> prev,
                         score_change |-> cur - prev,
                         change_rate |-> ChangeRate(cur, prev),
                         trend |-> Trend(ChangeRate(cur, prev))]>>),
            FileEntry(c), FileEntry(p))[1]

ReportArtists == {"IVE", "AESPA", "BTS"}

\* 40 -> 50 (+25.0), 50 -> 40 (-20.0), 0 -> 0 (the int 0)
ReportScores == {<<5000, 4000>>, <<4000, 5000>>, <<0, 0>>}

\* the comparisons of week 8 with 9 and of week 9 with 10
ReportPairs == {<<20250224, 20250217>>, <<20250303, 20250224>>}

\* only IVE was collected in week 10
ReportRows ==
    {r \in {ReportRow(a, s[1], s[2], w[1], w[2]) :
                a \in ReportArtists, s \in ReportScores, w \in ReportPairs} :
        r.current_week = <<2025, 10>> => r.artist = "IVE"}

\* a comparison has one row for an artist
OneRowPerArtistAndWeek(rs) ==
    \A i, j \in 1..Len(rs) :
        (rs[i].artist = rs[j].artist /\ rs[i].current_week = rs[j].current_week) => i = j

TrendTables ==
    {Frame({}, rs) : rs \in {q \in SeqsUpTo(ReportRows, MaxRows) : OneRowPerArtistAndWeek(q)}}
        \cup {NoFrame}

\* scored snapshots for the comparator
ReportSnapshots ==
    {NoFrame,
     calculate_weekly_scores(
         Frame({}, <<TrendRow("IVE", "Starship", Num(100), Num(4000)),
                     TrendRow("AESPA", "SM", Num(100), Num(8000))>>)).output,
     calculate_weekly_scores(
         Frame({}, <<TrendRow("AESPA", "SM", Num(100), Num(4000)),
                     TrendRow("IVE", "Starship", Num(100), Num(8000))>>)).output}

\* the tracker's methods on their arguments: a pair of snapshots beside a
\* table of two rows at most, or any table and no snapshot
InitReports ==
    /\ trends \in TrendTables
    /\ current_df \in ReportSnapshots
    /\ previous_df \in ReportSnapshots
    /\ (current_df # NoFrame \/ previous_df # NoFrame) => Len(trends.rows) <= 2
    /\ comparison = NoResult
    /\ data_dir = [n \in FileDateParts |-> NoFile]
    /\ output_file = NoResult
    /\ compared = <<>>
    /\ ReportVarsIdle
    /\ OpsVarsIdle
    /\ ScoreVarsIdle
    /\ BatchVarsIdle

NextReports == CompareWeeklyScores \/ GetTopGainersLosers \/ GenerateWeeklySummary

SpecReports == InitReports /\ [][NextReports]_vars

---------------------------------------------------------------------------
(* Claims about the reports (SpecReports) *)

TopRows == top_gainers.rows \o top_losers.rows

\* C13: every row of top_gainers and of top_losers is a row of the trend
\* table whose current_week is the maximum week label of the table (the
\* greatest label as a str); a row of another week is in neither list.
C13_TopRowsOfMaxWeek ==
    (top_gainers.kind = "df" /\ top_losers.kind = "df") =>
        \A k \in 1..Len(TopRows) :
            /\ \E i \in 1..Len(trends.rows) : trends.rows[i] = TopRows[k]
            /\ \A v \in WeeksOf(trends) :
                  v = TopRows[k].current_week
                      \/ StrLess(WeekLabel(v), WeekLabel(TopRows[k].current_week))

\* the table ends with a row of the smaller label '2025년_10주차'; the top
\* lists hold the two rows of '2025년_9주차'
C13_Witness ==
    /\ top_gainers.kind = "df"
    /\ Len(trends.rows) = 3
    /\ trends.rows[3].current_week = <<2025, 10>>
    /\ Len(top_gainers.rows) = 2
    /\ Len(top_losers.rows) = 2
    /\ \A k \in 1..Len(TopRows) : TopRows[k].current_week = <<2025, 9>>

\* C17: compare_weekly_scores, get_top_gainers_losers and
\* generate_weekly_summary only read their arguments: no step changes a
\* snapshot or the trend table (rows, their order, columns), so what one
\* call returns does not depend on the calls made before it.
C17_InputsReadOnly ==
    [][/\ current_df' = current_df
       /\ previous_df' = previous_df
       /\ trends' = trends]_vars

\* the three methods have returned: a comparison of two snapshots, one top
\* row out of a table of two weeks, and a summary; the table still has both rows
C17_Witness ==
    /\ comparison.kind = "df"
    /\ Len(current_df.rows) = 2 /\ Len(previous_df.rows) = 2
    /\ Len(trends.rows) = 2
    /\ trends.rows[1].current_week # trends.rows[2].current_week
    /\ top_gainers.kind = "df" /\ Len(top_gainers.rows) = 1
    /\ summary.kind = "summary"

\* the rows of the table whose current_week is the maximum week label
MaxWeekSlice == SelectSeq(trends.rows, LAMBDA r : r.current_week = LatestWeek(trends))

\* row i of the slice ranks before row j as a gainer: a greater change_rate,
\* or the same one and an earlier place in the table
GainsBefore(slice, i, j) ==
    \/ RateLess(slice[j].change_rate, slice[i].change_rate)
    \/ (slice[i].change_rate = slice[j].change_rate /\ i < j)

LosesBefore(slice, i, j) ==
    \/ RateLess(slice[i].change_rate, slice[j].change_rate)
    \/ (slice[i].change_rate = slice[j].change_rate /\ i < j)

\* C18: top_gainers has min(N, size of the slice) rows, the k-th being the
\* row of the slice that exactly k - 1 rows rank before (greater
\* change_rate first, equal ones in table order); top_losers likewise with
\* the smallest change_rate first.
C18_TopNStableOrder ==
    (top_gainers.kind = "df" /\ top_losers.kind = "df") =>
        \A slice \in {MaxWeekSlice} :
            /\ Len(top_gainers.rows) = IntMin(top_n, Len(slice))
            /\ Len(top_losers.rows) = IntMin(top_n, Len(slice))
            /\ \A k \in 1..Len(top_gainers.rows) :
                  \E i \in 1..Len(slice) :
                      /\ slice[i] = top_gainers.rows[k]
                      /\ Cardinality({j \in 1..Len(slice) : GainsBefore(slice, j, i)}) = k - 1
            /\ \A k \in 1..Len(top_losers.rows) :
                  \E i \in 1..Len(slice) :
                      /\ slice[i] = top_losers.rows[k]
                      /\ Cardinality({j \in 1..Len(slice) : LosesBefore(slice, j, i)}) = k - 1

\* a slice of +25.0, -20.0, +25.0 and N = 2: the gainers are rows 1 and 3,
\* the losers rows 2 and 1
C18_Witness ==
    /\ top_gainers.kind = "df"
    /\ top_n = 2
    /\ Len(MaxWeekSlice) = 3
    /\ MaxWeekSlice[1].change_rate = Rate(25, 1)
    /\ MaxWeekSlice[2].change_rate = Rate(-20, 1)
    /\ MaxWeekSlice[3].change_rate = Rate(25, 1)
    /\ top_gainers.rows = <<MaxWeekSlice[1], MaxWeekSlice[3]>>
    /\ top_losers.rows = <<MaxWeekSlice[2], MaxWeekSlice[1]>>

\* the number of rows of the slice with a trend
WithTrend(slice, trend) == Cardinality({i \in 1..Len(slice) : slice[i].trend = trend})

\* C19: in every summary artists_up + artists_down + artists_stable =
\* total_artists, total_artists is the number of rows of the latest-week
\* slice, and each count is the number of rows of the slice with that trend.
C19_CountsPartitionSlice ==
    summary.kind = "summary" =>
        \A slice \in {MaxWeekSlice} :
            /\ summary.artists_up + summary.artists_down + summary.artists_stable
                   = summary.total_artists
            /\ summary.total_artists = Len(slice)
            /\ summary.artists_up = WithTrend(slice, "up")
            /\ summary.artists_down = WithTrend(slice, "down")
            /\ summary.artists_stable = WithTrend(slice, "stable")

\* a table of three rows, two of them in the latest week, one up and one
\* stable; the row that is down is of the other week and is not counted
C19_Witness ==
    /\ summary.kind = "summary"
    /\ Len(trends.rows) = 3
    /\ \E k \in 1..3 : trends.rows[k].trend = "down"
    /\ summary.total_artists = 2
    /\ summary.artists_up = 1
    /\ summary.artists_down = 0
    /\ summary.artists_stable = 1

\* C20: in every summary max_gain and max_loss are the greatest and the
\* smallest change_rate of the latest-week slice, top_gainer is the artist of
\* the first row of the slice whose change_rate is max_gain and top_loser the
\* artist of the first row whose change_rate is max_loss.
C20_ExtremesAndFirstArtists ==
    summary.kind = "summary" =>
        \A slice \in {MaxWeekSlice} :
            /\ \A i \in 1..Len(slice) :
                  /\ ~RateLess(summary.max_gain, slice[i].change_rate)
                  /\ ~RateLess(slice[i].change_rate, summary.max_loss)
            /\ \E i \in 1..Len(slice) :
                  /\ slice[i].change_rate = summary.max_gain
                  /\ slice[i].artist = summary.top_gainer
                  /\ \A j \in 1..(i - 1) : slice[j].change_rate # summary.max_gain
            /\ \E i \in 1..Len(slice) :
                  /\ slice[i].change_rate = summary.max_loss
                  /\ slice[i].artist = summary.top_loser
                  /\ \A j \in 1..(i - 1) : slice[j].change_rate # summary.max_loss

\* a slice of -20.0, +25.0, +25.0: the second row is the top gainer, not the third
C20_Witness ==
    /\ summary.kind = "summary"
    /\ Len(MaxWeekSlice) = 3
    /\ MaxWeekSlice[1].change_rate = Rate(-20, 1)
    /\ MaxWeekSlice[2].change_rate = Rate(25, 1)
    /\ MaxWeekSlice[3].change_rate = Rate(25, 1)
    /\ summary.max_gain = Rate(25, 1)
    /\ summary.max_loss = Rate(-20, 1)
    /\ summary.top_gainer = MaxWeekSlice[2].artist
    /\ summary.top_loser = MaxWeekSlice[1].artist

---------------------------------------------------------------------------
(* Claims about the snapshot comparator (SpecCompare) *)

\* a snapshot that went through the batch scorer (an empty one comes back as it is)
Scored(d) == d.kind = "df" /\ ("total_score" \in d.columns \/ Len(d.rows) = 0)

Compared == comparison # NoResult /\ Scored(current_df) /\ Scored(previous_df)

RecordsOf(a) == {k \in 1..Len(comparison.rows) : comparison.rows[k].artist = a}

\* C6: the comparator gives exactly one TrendRecord for each artist name
\* that is, character for character, in both snapshots, and none for a name
\* that is in only one of them.
C6_OneRecordPerCommonArtist ==
    Compared =>
        \A a \in ArtistNames :
            Cardinality(RecordsOf(a)) =
                IF a \in ArtistSet(current_df) /\ a \in ArtistSet(previous_df) THEN 1 ELSE 0

\* "ive" is only in the current snapshot, "IVE" and "AESPA" are in both
C6_Witness ==
    /\ Compared
    /\ ArtistSeq(current_df) = <<"ive", "IVE", "AESPA">>
    /\ ArtistSet(previous_df) = {"IVE", "AESPA"}
    /\ ArtistSeq(comparison) = <<"IVE", "AESPA">>

\* C7: score_change = current_score - previous_score, and change_rate is
\* (score_change / previous_score) * 100 when previous_score > 0, 0 when both
\* scores are 0, and exactly 100 when previous_score = 0 and current_score is
\* not (50 -> 40 gives -20.0, 0 -> 40 gives 100).
C7_ChangeRate ==
    Compared =>
        \A k \in 1..Len(comparison.rows) :
            LET r == comparison.rows[k]
            IN  /\ r.current_score = ScoreOf(current_df, r.artist)
                /\ r.previous_score = ScoreOf(previous_df, r.artist)
                /\ r.score_change = r.current_score - r.previous_score
                /\ r.change_rate.den > 0
                /\ r.previous_score > 0 =>
                       r.change_rate.num * r.previous_score
                           = r.score_change * 100 * r.change_rate.den
                /\ (r.previous_score = 0 /\ r.current_score = 0) =>
                       r.change_rate = [num |-> 0, den |-> 1]
                /\ (r.previous_score = 0 /\ r.current_score # 0) =>
                       r.change_rate = [num |-> 100, den |-> 1]
                /\ (r.previous_score = 5000 /\ r.current_score = 4000) =>
                       r.change_rate = [num |-> -20, den |-> 1]

\* one comparison with 50 -> 40 and 0 -> 40
C7_Witness ==
    /\ Compared
    /\ \E k \in 1..Len(comparison.rows) :
          /\ comparison.rows[k].previous_score = 5000
          /\ comparison.rows[k].current_score = 4000
          /\ comparison.rows[k].score_change = -1000
          /\ comparison.rows[k].change_rate = [num |-> -20, den |-> 1]
    /\ \E k \in 1..Len(comparison.rows) :
          /\ comparison.rows[k].previous_score = 0
          /\ comparison.rows[k].current_score = 4000
          /\ comparison.rows[k].change_rate = [num |-> 100, den |-> 1]

\* C8: in every TrendRecord trend is 'up' exactly when change_rate > 0,
\* 'down' exactly when change_rate < 0 and 'stable' otherwise; there is no
\* other trend value.
C8_TrendFollowsRate ==
    Compared =>
        \A k \in 1..Len(comparison.rows) :
            LET r == comparison.rows[k]
            IN  /\ r.trend \in {"up", "down", "stable"}
                /\ r.trend = "up" <=> r.change_rate.num > 0
                /\ r.trend = "down" <=> r.change_rate.num < 0
                /\ r.trend = "stable" <=> r.change_rate.num = 0

\* one comparison with the three trends, 'up' being the rate of exactly 100
C8_Witness ==
    /\ Compared
    /\ {comparison.rows[k].trend : k \in 1..Len(comparison.rows)} = {"up", "down", "stable"}
    /\ \E k \in 1..Len(comparison.rows) :
          comparison.rows[k].trend = "up" /\ comparison.rows[k].change_rate.num = 100

\* C24: for scores in [0, 100] the trend of a TrendRecord is 'up' exactly
\* when current_score > previous_score, 'down' exactly when it is smaller and
\* 'stable' exactly when the two are equal, also for a previous_score of 0.
C24_TrendFollowsScoreChange ==
    Compared =>
        \A k \in 1..Len(comparison.rows) :
            LET r == comparison.rows[k]
            IN  /\ r.current_score \in 0..(100 * 100)
                /\ r.previous_score \in 0..(100 * 100)
                /\ r.trend = "up" <=> r.current_score > r.previous_score
                /\ r.trend = "down" <=> r.current_score < r.previous_score
                /\ r.trend = "stable" <=> r.current_score = r.previous_score

\* the two zero-baseline cases in one comparison: 0 -> 40 is up, 0 -> 0 is stable
C24_Witness ==
    /\ Compared
    /\ \E k \in 1..Len(comparison.rows) :
          /\ comparison.rows[k].previous_score = 0
          /\ comparison.rows[k].current_score > 0
          /\ comparison.rows[k].trend = "up"
    /\ \E k \in 1..Len(comparison.rows) :
          /\ comparison.rows[k].previous_score = 0
          /\ comparison.rows[k].current_score = 0
          /\ comparison.rows[k].trend = "stable"

\* C9: when the two snapshots share no artist name the comparator returns
\* an empty trend sequence: a table without rows, not None and not an error.
C9_NoCommonArtistGivesEmptyTable ==
    (Compared /\ ArtistSet(current_df) \cap ArtistSet(previous_df) = {}) =>
        comparison = Frame({}, <<>>)

---------------------------------------------------------------------------
(* Claims about the trend aggregator (SpecTrends) *)

\* the files that hold a snapshot and carry a date
DatedFiles == {n \in FileDateParts : data_dir[n] # NoFile /\ ParseDate(n).ok}

DateOf(n) == [year |-> n \div 10000, month |-> (n \div 100) % 100, day |-> n % 100]

\* p and c are neighbours in date order: p is earlier, no dated file lies between
AdjacentInDateOrder(p, c) == p < c /\ ~ \E m \in DatedFiles : p < m /\ m < c

\* the score the batch scorer gives artist a in the snapshot of file n
SnapshotScore(n, a) == ScoreOf(calculate_weekly_scores(data_dir[n]).output, a)

\* C10: every row of the trend table compares two snapshots that are
\* neighbours in the order of their collection dates, the earlier as previous
\* and the later as current; no row compares snapshots that are not adjacent
\* (for W1, W2, W3 there is no row for the pair W1, W3).
C10_OnlyConsecutivePairs ==
    trends.kind = "df" =>
        \A k \in 1..Len(trends.rows) :
            LET r == trends.rows[k]
            IN  \E p, c \in DatedFiles :
                    /\ AdjacentInDateOrder(p, c)
                    /\ r.previous_date = DateOf(p)
                    /\ r.current_date = DateOf(c)
                    /\ r.artist \in ArtistSet(data_dir[p]) \cap ArtistSet(data_dir[c])
                    /\ r.previous_score = SnapshotScore(p, r.artist)
                    /\ r.current_score = SnapshotScore(c, r.artist)

\* W1 and W3 both hold AESPA, W2 does not: the table has the IVE rows of
\* (W1, W2) and (W2, W3) and no AESPA row
C10_Witness ==
    /\ trends.kind = "df"
    /\ DatedFiles = {20250224, 20250303, 20251229}
    /\ ArtistSet(data_dir[20250224]) = {"IVE", "AESPA"}
    /\ ArtistSet(data_dir[20250303]) = {"IVE"}
    /\ ArtistSet(data_dir[20251229]) = {"IVE", "AESPA"}
    /\ Len(trends.rows) = 2
    /\ trends.rows[1].previous_date = DateOf(20250224)
    /\ trends.rows[1].current_date = DateOf(20250303)
    /\ trends.rows[2].previous_date = DateOf(20250303)
    /\ trends.rows[2].current_date = DateOf(20251229)

\* C11: with fewer than two snapshots (no dated file, or exactly one, whatever
\* undated files lie beside it) generate_weekly_trends returns None: it does
\* not raise, hands no pair to compare_weekly_scores and writes no file.
C11_FewSnapshotsGiveNone ==
    (trends # NoResult /\ Cardinality(DatedFiles) < 2) =>
        /\ trends = NoFrame
        /\ compared = <<>>
        /\ output_file = NoResult

\* one dated snapshot with rows, beside a file whose date part is no date
C11_Witness ==
    /\ trends = NoFrame
    /\ Cardinality(DatedFiles) = 1
    /\ \E n \in DatedFiles : Len(data_dir[n].rows) > 0
    /\ data_dir[20251340] # NoFile
    /\ compared = <<>>

\* the collection date of the latest current snapshot of the table
LatestDate(t) ==
    CHOOSE d \in {t.rows[k].current_date : k \in 1..Len(t.rows)} :
        \A k \in 1..Len(t.rows) : DateKey(t.rows[k].current_date) <= DateKey(d)

\* C12: the summary and the top lists describe the most recent comparison:
\* the week they select is the current_week of the rows whose current
\* snapshot has the latest collection date (the snapshots of the model lie
\* in four different weeks: 8, 9 and 10 of 2025 and the one of 2025-12-29).
C12_LatestWeekIsLatestDate ==
    trends.kind = "df" =>
        /\ summary.kind = "summary" =>
              \A k \in 1..Len(trends.rows) :
                  trends.rows[k].current_week = summary.week
                      <=> trends.rows[k].current_date = LatestDate(trends)
        /\ top_gainers.kind = "df" =>
              \A k \in 1..Len(top_gainers.rows) :
                  top_gainers.rows[k].current_date = LatestDate(trends)
        /\ top_losers.kind = "df" =>
              \A k \in 1..Len(top_losers.rows) :
                  top_losers.rows[k].current_date = LatestDate(trends)

\* C16: with two or more snapshots, whatever their rows (none at all, or
\* rows with missing metric fields), generate_weekly_trends completes and
\* returns a trend table or None: nothing raises out of it.
C16_TrendsNeverRaise ==
    (trends # NoResult /\ Cardinality(DatedFiles) >= 2) => trends.kind \in {"df", "None"}

\* C21: generate_weekly_trends returns None exactly when fewer than two
\* snapshots are available; with two or more it returns a trend table, one
\* without rows when no consecutive pair shares an artist.
C21_NoneOnlyForFewSnapshots ==
    trends # NoResult => (trends = NoFrame <=> Cardinality(DatedFiles) < 2)

\* every snapshot file holds an artist name once at most
SnapshotsHaveUniqueArtists ==
    \A n \in FileDateParts : data_dir[n].kind = "df" => UniqueArtists(data_dir[n].rows)

\* C25: for snapshots with unique artist names, several of them collected in
\* one week included, the latest-week slice of the reports has one row per
\* artist at most: no artist is listed twice in top_gainers or top_losers
\* and total_artists counts every artist once.
C25_OneRowPerArtistInLatestWeek ==
    (trends.kind = "df" /\ SnapshotsHaveUniqueArtists) =>
        /\ top_gainers.kind = "df" => UniqueArtists(top_gainers.rows)
        /\ top_losers.kind = "df" => UniqueArtists(top_losers.rows)
        /\ summary.kind = "summary" =>
               summary.total_artists =
                   Cardinality({trends.rows[k].artist :
                                   k \in {i \in 1..Len(trends.rows) :
                                             trends.rows[i].current_week = summary.week}})

---------------------------------------------------------------------------
(* Retry wrapper: utils/error_handling.py with_retry.                      *)
(*                                                                         *)
(* What a call of a function does is a record: Returned(v) when it         *)
(* returns v, Raised(t, k) when it raises an exception of type t; k tells  *)
(* the exception objects of different calls apart.  A function is given    *)
(* by what its successive calls do.                                        *)

Returned(v) == [kind |-> "return", value |-> v]

Raised(t, k) == [kind |-> "raise", type |-> t, at |-> k]

\* the classes an exception of type t is an instance of
Bases(t) ==
    CASE t \in {"KeyboardInterrupt", "BaseException"} -> {t, "BaseException"}
      [] t = "TimeoutException" -> {t, "WebDriverException", "Exception", "BaseException"}
      [] OTHER -> {t, "Exception", "BaseException"}

\* except types: does the clause catch the exception e
Catches(types, e) == Bases(e.type) \cap types # {}

\* the for loop of the wrapper from the given attempt on; slept is the list of
\* the time.sleep calls made so far
RECURSIVE RetryLoop(_, _, _, _, _, _, _)
RetryLoop(n, factor, types, f, attempt, current_delay, slept) ==
    IF attempt >= n
    THEN [result |-> Returned("None"), calls |-> attempt, sleeps |-> slept]
    ELSE LET r == f[attempt + 1]
         IN  IF r.kind = "return" \/ ~Catches(types, r) \/ attempt = n - 1
             THEN [result |-> r, calls |-> attempt + 1, sleeps |-> slept]
             ELSE RetryLoop(n, factor, types, f, attempt + 1,
                            current_delay * factor, Append(slept, current_delay))

\* the wrapper with the if of line 32 left out: the last failure sleeps and
\* the wrapper returns None
RECURSIVE RetryLoopSwallowingLast(_, _, _, _, _, _, _)
RetryLoopSwallowingLast(n, factor, types, f, attempt, current_delay, slept) ==
    IF attempt >= n
    THEN [result |-> Returned("None"), calls |-> attempt, sleeps |-> slept]
    ELSE LET r == f[attempt + 1]
         IN  IF r.kind = "return" \/ ~Catches(types, r)
             THEN [result |-> r, calls |-> attempt + 1, sleeps |-> slept]
             ELSE RetryLoopSwallowingLast(n, factor, types, f, attempt + 1,
                            current_delay * factor, Append(slept, current_delay))

WithRetrySwallowingLast(n, d, factor, types, f) ==
    RetryLoopSwallowingLast(n, factor, types, f, 0, d, <<>>)

\* one call of with_retry(n, d, factor, types)(f): what it returns or raises,
\* how many calls of f it made and the delays it slept
with_retry(n, d, factor, types, f) == RetryLoop(n, factor, types, f, 0, d, <<>>)

\* the most attempts the model asks for
MaxAttempts == 3

\* what one call of the wrapped function can do
CallOutcomes(k) ==
    {Returned("True"), Raised("WebDriverException", k), Raised("OSError", k),
     Raised("KeyboardInterrupt", k)}

\* functions, by what their first MaxAttempts calls do
Functions == {f \in [1..MaxAttempts -> UNION {CallOutcomes(k) : k \in 1..MaxAttempts}] :
                 \A k \in 1..MaxAttempts : f[k] \in CallOutcomes(k)}

NotWrapped == [kind |-> "none"]

InitRetry ==
    /\ max_attempts \in 0..MaxAttempts
    /\ delay \in {1, 2}
    /\ backoff_factor \in {1, 2, 3}
    /\ exceptions \in {{"Exception"}, {"WebDriverException"}}
    /\ func \in Functions
    /\ wrapped = NotWrapped
    /\ SchedulerVarsIdle
    /\ QuotaVarsIdle
    /\ ScheduleVarsIdle
    /\ ScoreVarsIdle
    /\ BatchVarsIdle
    /\ CompareVarsIdle
    /\ TrendVarsIdle
    /\ ReportVarsIdle

\* one call of the wrapper
CallWrapper ==
    /\ wrapped = NotWrapped
    /\ \E r \in {with_retry(max_attempts, delay, backoff_factor, exceptions, func)} :
          wrapped' = [kind |-> "called", result |-> r.result, calls |-> r.calls,
                      sleeps |-> r.sleeps]
    /\ UNCHANGED <<max_attempts, delay, backoff_factor, exceptions, func,
                   schedulerVars, quotaVars, scheduleVars, scoringVars>>

NextRetry == CallWrapper

SpecRetry == InitRetry /\ [][NextRetry]_vars

---------------------------------------------------------------------------
(* Claims about with_retry (SpecRetry) *)

\* the first call of func that does not raise a listed exception, or 0
FirstSettled(n) ==
    IF \E k \in 1..n : func[k].kind = "return" \/ ~Catches(exceptions, func[k])
    THEN CHOOSE k \in 1..n :
             /\ func[k].kind = "return" \/ ~Catches(exceptions, func[k])
             /\ \A j \in 1..(k - 1) : func[j].kind = "raise" /\ Catches(exceptions, func[j])
    ELSE 0

RECURSIVE Power(_, _)
Power(b, k) == IF k = 0 THEN 1 ELSE b * Power(b, k - 1)

\* C22: a function wrapped by with_retry(max_attempts = n), n >= 1, is called
\* at most n times; the outcome of the first call that does not raise a listed
\* exception (a return value, or an exception of another type) is the outcome
\* of the wrapper and no further call is made; when all n calls raise listed
\* exceptions the exception of the n-th call is re-raised; the wrapper sleeps
\* once between consecutive attempts, delay * backoff_factor^(k-1) before
\* attempt k + 1, and not after the last one.
C22_RetryCallsAndDelays ==
    (wrapped # NotWrapped /\ max_attempts >= 1) =>
        /\ wrapped.calls \in 1..max_attempts
        /\ LET k == FirstSettled(max_attempts)
           IN  IF k # 0
               THEN wrapped.calls = k /\ wrapped.result = func[k]
               ELSE wrapped.calls = max_attempts /\ wrapped.result = func[max_attempts]
        /\ Len(wrapped.sleeps) = wrapped.calls - 1
        /\ \A k \in 1..Len(wrapped.sleeps) :
               wrapped.sleeps[k] = delay * Power(backoff_factor, k - 1)

\* three attempts all raised a listed exception: the third exception is
\* re-raised after sleeps of 2 and 6
C22_Witness ==
    /\ wrapped # NotWrapped
    /\ max_attempts = 3
    /\ delay = 2
    /\ backoff_factor = 3
    /\ wrapped.calls = 3
    /\ wrapped.result = Raised("WebDriverException", 3)
    /\ wrapped.sleeps = <<2, 6>>

---------------------------------------------------------------------------
(* Scheduler: scheduler.py KpopDataScheduler, and SeleniumBase.get_page of *)
(* utils/selenium_base.py.                                                 *)
(*                                                                         *)
(* subprocess.run returns a CompletedProcess, Returned(returncode), or     *)
(* raises.  driver.get returns None or raises.  send_slack_notification    *)
(* and the loggers do not raise (SlackNotifier.send_message catches every  *)
(* Exception and returns False).  The started list holds every subprocess  *)
(* and page load started, in order, with what became of it.                *)

\* the defaults of with_retry
DefaultDelay == 1

DefaultBackoffFactor == 2

\* the delay get_page hands to with_retry
GetPageDelay == 2

\* the body of run_sns_link_collection and of run_sns_data_collection with
\* every exception passed on
CollectionBodyPropagating(run) ==
    IF run.kind = "return"
    THEN Returned(IF run.value = 0 THEN "True" ELSE "False")
    ELSE run

\* the body of run_sns_link_collection and of run_sns_data_collection (the two
\* differ in the script, the timeout and the attribute they set), given what
\* subprocess.run does
CollectionBody(run) ==
    IF run.kind = "return"
    THEN Returned(IF run.value = 0 THEN "True" ELSE "False")
    ELSE IF Catches({"TimeoutExpired"}, run) THEN Returned("False")
    ELSE IF Catches({"Exception"}, run) THEN Returned("False")
    ELSE run

\* a collection method under with_retry(max_attempts = n): runs[k] is what the
\* k-th subprocess would do
RunCollection(n, runs) ==
    LET w == with_retry(n, DefaultDelay, DefaultBackoffFactor, {"Exception"},
                        [k \in 1..Len(runs) |-> CollectionBody(runs[k])])
    IN  [result |-> w.result,
         runs |-> SubSeq(runs, 1, w.calls),
         sleeps |-> w.sleeps,
         completed |-> \E k \in 1..w.calls : runs[k] = Returned(0)]

run_sns_link_collection(runs) == RunCollection(3, runs)

run_sns_data_collection(runs) == RunCollection(2, runs)

\* the method was not called
NotRun == [result |-> [kind |-> "none"], runs |-> <<>>, sleeps |-> <<>>,
           completed |-> FALSE]

NoReport == [kind |-> "none"]

\* the completion report of run_weekly_workflow
Report(success_count, sns_set, data_set) ==
    [kind |-> "report",
     success_count |-> success_count,
     total_tasks |-> 2,
     sns_links |-> IF sns_set THEN "done" ELSE "failed",
     sns_data |-> IF data_set THEN "done" ELSE "failed",
     notification |-> IF success_count = 2 THEN "complete" ELSE "warning"]

\* run_weekly_workflow collecting the data whatever the link collection returned
WorkflowAlwaysCollecting(link_runs, data_runs, sns_set, data_set) ==
    LET link == run_sns_link_collection(link_runs)
        data == run_sns_data_collection(data_runs)
        count == (IF link.result = Returned("True") THEN 1 ELSE 0)
                 + (IF data.result = Returned("True") THEN 1 ELSE 0)
    IN  [result |-> Returned("None"), link |-> link, data |-> data,
         report |-> Report(count, sns_set \/ link.completed,
                           data_set \/ data.completed)]

\* run_weekly_workflow; sns_set and data_set tell whether last_sns_collection
\* and last_data_collection were set before the call
run_weekly_workflow(link_runs, data_runs, sns_set, data_set) ==
    LET link == run_sns_link_collection(link_runs)
        data == run_sns_data_collection(data_runs)
    IN  IF link.result.kind = "raise"
        THEN [result |-> link.result, link |-> link, data |-> NotRun,
              report |-> NoReport]
        ELSE IF link.result.value # "True"
        THEN [result |-> Returned("None"), link |-> link, data |-> NotRun,
              report |-> Report(0, sns_set \/ link.completed, data_set)]
        ELSE IF data.result.kind = "raise"
        THEN [result |-> data.result, link |-> link, data |-> data,
              report |-> NoReport]
        ELSE [result |-> Returned("None"), link |-> link, data |-> data,
              report |-> Report(IF data.result.value = "True" THEN 2 ELSE 1,
                                sns_set \/ link.completed,
                                data_set \/ data.completed)]

\* handle_selenium_error around the body of get_page, given what driver.get
\* does: the body returns None, the two except clauses return None
handle_selenium_error(load) ==
    IF load.kind = "return" THEN Returned("None")
    ELSE IF Catches({"WebDriverException"}, load) THEN Returned("None")
    ELSE IF Catches({"Exception"}, load) THEN Returned("None")
    ELSE load

\* get_page under with_retry(max_attempts=3, delay=2): loads[k] is what the
\* k-th driver.get would do
get_page(loads) ==
    LET w == with_retry(3, GetPageDelay, DefaultBackoffFactor, {"Exception"},
                        [k \in 1..Len(loads) |-> handle_selenium_error(loads[k])])
    IN  [result |-> w.result,
         runs |-> SubSeq(loads, 1, w.calls),
         sleeps |-> w.sleeps,
         completed |-> FALSE]

\* the subprocesses or page loads of one call, as entries of the started list
RECURSIVE Tagged(_, _)
Tagged(target, runs) ==
    IF runs = <<>> THEN <<>>
    ELSE <<[target |-> target, outcome |-> Head(runs)]>> \o Tagged(target, Tail(runs))

\* what the first subprocess or page load of a call can do
FirstOutcomes ==
    {Returned(0), Returned(1), Raised("TimeoutExpired", 1), Raised("OSError", 1),
     Raised("KeyboardInterrupt", 1)}

\* what a further one could do, were it started
LaterOutcomes(k) == {Returned(0), Raised("OSError", k)}

LinkRuns == {<<a, b, c>> : a \in FirstOutcomes, b \in LaterOutcomes(2), c \in LaterOutcomes(3)}

DataRuns == {<<a, b>> : a \in FirstOutcomes, b \in LaterOutcomes(2)}

PageLoads ==
    {<<a, b, c>> : a \in {Returned("None"), Raised("WebDriverException", 1),
                          Raised("TimeoutException", 1), Raised("AttributeError", 1),
                          Raised("KeyboardInterrupt", 1)},
                   b \in {Returned("None"), Raised("WebDriverException", 2)},
                   c \in {Returned("None"), Raised("WebDriverException", 3)}}

\* the model starts a call while fewer subprocesses and page loads than this
\* have been started
MaxStarted == 2

InitScheduler ==
    /\ last_sns_collection = "None"
    /\ last_data_collection = "None"
    /\ started = <<>>
    /\ last_call = [name |-> ""]
    /\ RetryVarsIdle
    /\ QuotaVarsIdle
    /\ ScheduleVarsIdle
    /\ ScoreVarsIdle
    /\ BatchVarsIdle
    /\ CompareVarsIdle
    /\ TrendVarsIdle
    /\ ReportVarsIdle

LinkScript == "sns_link_collector.py"

DataScript == "sns_data_collector.py"

RunSnsLinkCollection ==
    /\ Len(started) < MaxStarted
    /\ \E runs \in LinkRuns :
          \E r \in {run_sns_link_collection(runs)} :
              /\ last_sns_collection' =
                     IF r.completed THEN "datetime" ELSE last_sns_collection
              /\ started' = started \o Tagged(LinkScript, r.runs)
              /\ last_call' = [name |-> "run_sns_link_collection",
                               result |-> r.result,
                               started |-> Tagged(LinkScript, r.runs),
                               sleeps |-> r.sleeps]
    /\ UNCHANGED <<last_data_collection, retryVars, quotaVars, scheduleVars,
                   scoringVars>>

RunSnsDataCollection ==
    /\ Len(started) < MaxStarted
    /\ \E runs \in DataRuns :
          \E r \in {run_sns_data_collection(runs)} :
              /\ last_data_collection' =
                     IF r.completed THEN "datetime" ELSE last_data_collection
              /\ started' = started \o Tagged(DataScript, r.runs)
              /\ last_call' = [name |-> "run_sns_data_collection",
                               result |-> r.result,
                               started |-> Tagged(DataScript, r.runs),
                               sleeps |-> r.sleeps]
    /\ UNCHANGED <<last_sns_collection, retryVars, quotaVars, scheduleVars,
                   scoringVars>>

RunWeeklyWorkflow ==
    /\ Len(started) < MaxStarted
    /\ \E link_runs \in LinkRuns, data_runs \in DataRuns :
          \E r \in {run_weekly_workflow(link_runs, data_runs,
                                        last_sns_collection # "None",
                                        last_data_collection # "None")} :
              /\ last_sns_collection' =
                     IF r.link.completed THEN "datetime" ELSE last_sns_collection
              /\ last_data_collection' =
                     IF r.data.completed THEN "datetime" ELSE last_data_collection
              /\ started' = started \o Tagged(LinkScript, r.link.runs)
                                    \o Tagged(DataScript, r.data.runs)
              /\ last_call' = [name |-> "run_weekly_workflow",
                               result |-> r.result,
                               started |-> Tagged(LinkScript, r.link.runs)
                                           \o Tagged(DataScript, r.data.runs),
                               sleeps |-> r.link.sleeps \o r.data.sleeps,
                               link |-> r.link.result,
                               data |-> r.data.result,
                               report |-> r.report]
    /\ UNCHANGED <<retryVars, quotaVars, scheduleVars, scoringVars>>

GetPage ==
    /\ Len(started) < MaxStarted
    /\ \E loads \in PageLoads :
          \E r \in {get_page(loads)} :
              /\ started' = started \o Tagged("driver.get", r.runs)
              /\ last_call' = [name |-> "get_page",
                               result |-> r.result,
                               started |-> Tagged("driver.get", r.runs),
                               sleeps |-> r.sleeps]
    /\ UNCHANGED <<last_sns_collection, last_data_collection, retryVars,
                   quotaVars, scheduleVars, scoringVars>>

NextScheduler ==
    RunSnsLinkCollection \/ RunSnsDataCollection \/ RunWeeklyWorkflow \/ GetPage

SpecScheduler == InitScheduler /\ [][NextScheduler]_vars

---------------------------------------------------------------------------
(* Claims about the scheduler (SpecScheduler) *)

\* the steps of the latest workflow run that returned True
SuccessfulSteps ==
    (IF last_call.link = Returned("True") THEN {"link"} ELSE {})
    \cup (IF last_call.data = Returned("True") THEN {"data"} ELSE {})

\* C23: in a run of run_weekly_workflow a data collection subprocess is started
\* only after a link collection subprocess of the same run and only when the
\* link collection returned True; when link collection fails no data
\* collection is started; the reported success count is between 0 and 2 and
\* is the number of steps that returned True.
C23_DataOnlyAfterLinkSuccess ==
    last_call.name = "run_weekly_workflow" =>
        /\ \A i \in 1..Len(last_call.started) :
               last_call.started[i].target = DataScript =>
                   /\ last_call.link = Returned("True")
                   /\ \E j \in 1..(i - 1) :
                          /\ last_call.started[j].target = LinkScript
                          /\ last_call.started[j].outcome = Returned(0)
        /\ last_call.link # Returned("True") =>
               /\ last_call.data = NotRun.result
               /\ \A i \in 1..Len(last_call.started) :
                      last_call.started[i].target # DataScript
        /\ last_call.report # NoReport =>
               /\ last_call.report.success_count \in 0..2
               /\ last_call.report.success_count = Cardinality(SuccessfulSteps)

\* a run whose link collection succeeded and whose data collection failed:
\* both were started, one success is reported
C23_Witness ==
    /\ last_call.name = "run_weekly_workflow"
    /\ last_call.link = Returned("True")
    /\ last_call.data = Returned("False")
    /\ Len(last_call.started) = 2
    /\ last_call.report # NoReport
    /\ last_call.report.success_count = 1

\* C30: a call of run_sns_link_collection, run_sns_data_collection or get_page
\* starts its subprocess or page load once, whether that succeeds or fails:
\* the wrapper never sleeps and never calls the function again, the call
\* returns True, False or None, and the only exceptions that leave it are
\* those that are no Exception (KeyboardInterrupt).  The same holds for the
\* two steps inside run_weekly_workflow.
C30_NoSecondAttempt ==
    /\ last_call.name \in {"run_sns_link_collection", "run_sns_data_collection",
                           "get_page"} =>
           /\ Len(last_call.started) = 1
           /\ last_call.sleeps = <<>>
           /\ last_call.result.kind = "return" =>
                  last_call.result.value \in {"True", "False", "None"}
           /\ last_call.result.kind = "raise" =>
                  ~Catches({"Exception"}, last_call.result)
    /\ last_call.name = "run_weekly_workflow" =>
           /\ last_call.sleeps = <<>>
           /\ Cardinality({i \in 1..Len(last_call.started) :
                              last_call.started[i].target = LinkScript}) = 1
           /\ Cardinality({i \in 1..Len(last_call.started) :
                              last_call.started[i].target = DataScript}) <= 1

\* a link collection whose subprocess raised OSError and a page load that
\* raised WebDriverException: each was started once and the call returned
\* False or None
C30_Witness ==
    /\ last_call.name = "get_page"
    /\ last_call.started =
           <<[target |-> "driver.get", outcome |-> Raised("WebDriverException", 1)]>>
    /\ last_call.result = Returned("None")
    /\ Len(started) = 2
    /\ started[1] = [target |-> LinkScript, outcome |-> Raised("OSError", 1)]

---------------------------------------------------------------------------
(* API quota: utils/quota_manager.py APIQuotaManager.                      *)
(*                                                                         *)
(* quota_status maps an API to a dict from days to entries [used,          *)
(* remaining, requests]; a day is a number (the date string of strftime),  *)
(* a request is [time, operation, cost].  The quota file holds what        *)
(* json.dump wrote: a dict with str keys, int values and lists, which      *)
(* json.load gives back as it was.                                         *)

quota_limits ==
    [youtube |-> [daily_limit |-> 10000, search_cost |-> 100, channel_cost |-> 1],
     spotify |-> [daily_limit |-> 100000, search_cost |-> 1, artist_cost |-> 1],
     kopis |-> [daily_limit |-> 1000, search_cost |-> 1, detail_cost |-> 1]]

APIs == DOMAIN quota_limits

\* the entry load_quota_status and use_quota create for a new day
FreshEntry(api) ==
    [used |-> 0, remaining |-> quota_limits[api].daily_limit, requests |-> <<>>]

QuotaNoFile == [kind |-> "nofile"]

\* a file json.load cannot read
CorruptFile == [kind |-> "corrupt"]

json_dump(status) == [kind |-> "json", status |-> status]

json_load(file) == file.status

\* d with d[key] = value
DictSet(d, key, value) ==
    [k \in DOMAIN d \cup {key} |-> IF k = key THEN value ELSE d[k]]

\* the dict stored under key, an empty one when the key is missing
DictOf(d, key) == IF key \in DOMAIN d THEN d[key] ELSE EmptyDict

\* load_quota_status: the quota_status it leaves
load_quota_status(file, day) ==
    IF file = CorruptFile THEN EmptyDict
    ELSE LET loaded == IF file = QuotaNoFile THEN EmptyDict ELSE json_load(file)
         IN  [api \in DOMAIN loaded \cup APIs |->
                 IF api \in APIs /\ day \notin DOMAIN DictOf(loaded, api)
                 THEN DictSet(DictOf(loaded, api), day, FreshEntry(api))
                 ELSE loaded[api]]

check_quota(status, day, api, cost) ==
    IF api \notin DOMAIN status THEN FALSE
    ELSE IF day \notin DOMAIN status[api] THEN TRUE
    ELSE status[api][day].remaining >= cost

\* the entry after the three updates of lines 107-113
Deducted(entry, day, operation, cost) ==
    [used |-> entry.used + cost,
     remaining |-> entry.remaining - cost,
     requests |-> Append(entry.requests,
                         [time |-> day, operation |-> operation, cost |-> cost])]

\* use_quota without the subtraction of line 108
UseQuotaKeepingRemaining(status, day, api, operation, cost) ==
    IF ~check_quota(status, day, api, cost)
    THEN [returned |-> FALSE, status |-> status, saved |-> FALSE]
    ELSE LET entry == IF day \in DOMAIN status[api] THEN status[api][day]
                      ELSE FreshEntry(api)
             new == [Deducted(entry, day, operation, cost) EXCEPT
                         !.remaining = entry.remaining]
         IN  [returned |-> TRUE,
              status |-> DictSet(status, api, DictSet(status[api], day, new)),
              saved |-> TRUE]

\* use_quota recording the request before it checks the quota
UseQuotaRecordingFirst(status, day, api, operation, cost) ==
    IF api \notin DOMAIN status
    THEN [returned |-> FALSE, status |-> status, saved |-> FALSE]
    ELSE LET entry == IF day \in DOMAIN status[api] THEN status[api][day]
                      ELSE FreshEntry(api)
             new == Deducted(entry, day, operation, cost)
         IN  [returned |-> check_quota(status, day, api, cost),
              status |-> DictSet(status, api, DictSet(status[api], day, new)),
              saved |-> TRUE]

\* use_quota: what it returns, the quota_status it leaves and whether it called
\* save_quota_status
use_quota(status, day, api, operation, cost) ==
    IF ~check_quota(status, day, api, cost)
    THEN [returned |-> FALSE, status |-> status, saved |-> FALSE]
    ELSE LET entry == IF day \in DOMAIN status[api] THEN status[api][day]
                      ELSE FreshEntry(api)
             new == Deducted(entry, day, operation, cost)
         IN  [returned |-> TRUE,
              status |-> DictSet(status, api, DictSet(status[api], day, new)),
              saved |-> TRUE]

\* get_quota_status(api)['remaining']
RemainingToday(status, day, api) ==
    IF api \notin DOMAIN status \/ day \notin DOMAIN status[api]
    THEN quota_limits[api].daily_limit
    ELSE status[api][day].remaining

PyMinInt(a, b) == IF b < a THEN b ELSE a

\* optimize_batch_size
optimize_batch_size(status, day, api, total_items, operation_type) ==
    LET remaining == RemainingToday(status, day, api)
        cost_per_item ==
            IF api = "youtube"
            THEN IF operation_type = "search" THEN quota_limits[api].search_cost
                 ELSE quota_limits[api].channel_cost
            ELSE 1
    IN  PyMinInt(total_items, remaining \div cost_per_item)

\* the days the model runs through
FirstDay == 1

LastDay == 2

\* the model accepts requests while fewer than this are recorded
MaxRequests == 2

\* the APIs the model's callers name: youtube (costs per operation), kopis
\* (the smallest limit; spotify takes the same branches) and instagram, which
\* has no quota
CalledAPIs == {"youtube", "kopis", "instagram"}

CostSamples == {1, 1000, 1001}

RECURSIVE SumLen(_, _)
SumLen(status, pairs) ==
    IF pairs = {} THEN 0
    ELSE LET q == CHOOSE x \in pairs : TRUE
         IN  Len(status[q[1]][q[2]].requests) + SumLen(status, pairs \ {q})

\* the (API, day) pairs that have an entry
Entries(status) == {q \in (DOMAIN status) \X (FirstDay..LastDay) : q[2] \in DOMAIN status[q[1]]}

\* the number of requests recorded
Recorded(status) == SumLen(status, Entries(status))

InitQuota ==
    /\ today = FirstDay
    /\ quota_file \in {QuotaNoFile, CorruptFile}
    /\ quota_status = load_quota_status(quota_file, today)
    /\ saves = 0
    /\ quota_call = [name |-> ""]
    /\ ScheduleVarsIdle
    /\ RetryVarsIdle
    /\ SchedulerVarsIdle
    /\ ScoreVarsIdle
    /\ BatchVarsIdle
    /\ CompareVarsIdle
    /\ TrendVarsIdle
    /\ ReportVarsIdle

CheckQuota ==
    /\ pc = "idle"
    /\ \E api \in CalledAPIs, cost \in CostSamples :
          quota_call' = [name |-> "check_quota", api |-> api, cost |-> cost,
                         returned |-> check_quota(quota_status, today, api, cost)]
    /\ UNCHANGED <<quota_status, quota_file, today, saves, scheduleVars,
                   retryVars, schedulerVars, scoringVars>>

UseQuota ==
    /\ pc = "idle"
    /\ Recorded(quota_status) < MaxRequests
    /\ \E api \in CalledAPIs, cost \in CostSamples :
          \E r \in {use_quota(quota_status, today, api, "search", cost)} :
              /\ quota_status' = r.status
              /\ quota_file' = IF r.saved THEN json_dump(r.status) ELSE quota_file
              /\ saves' = IF r.saved THEN saves + 1 ELSE saves
              /\ quota_call' = [name |-> "use_quota", api |-> api, cost |-> cost,
                                returned |-> r.returned]
    /\ UNCHANGED <<today, scheduleVars, retryVars, schedulerVars, scoringVars>>

\* the day changes while the manager lives on
Midnight ==
    /\ pc = "idle"
    /\ today < LastDay
    /\ today' = today + 1
    /\ UNCHANGED <<quota_status, quota_file, saves, quota_call, scheduleVars,
                   retryVars, schedulerVars, scoringVars>>

\* the process starts again: APIQuotaManager() loads the file
NewManager ==
    /\ pc = "idle"
    /\ quota_status' = load_quota_status(quota_file, today)
    /\ quota_call' = [name |-> ""]
    /\ UNCHANGED <<quota_file, today, saves, scheduleVars,
                   retryVars, schedulerVars, scoringVars>>

NextQuota == CheckQuota \/ UseQuota \/ Midnight \/ NewManager

SpecQuota == InitQuota /\ [][NextQuota]_vars

---------------------------------------------------------------------------
(* Claims about the quota manager (SpecQuota) *)

\* C26: after any sequence of use_quota and check_quota calls, with any costs
\* and across day changes, the remaining quota of every API and day is not
\* negative.
C26_RemainingNeverNegative ==
    \A q \in Entries(quota_status) : quota_status[q[1]][q[2]].remaining >= 0

RECURSIVE SumCosts(_)
SumCosts(requests) ==
    IF requests = <<>> THEN 0 ELSE Head(requests).cost + SumCosts(Tail(requests))

\* C27: after any sequence of use_quota calls on a freshly initialised manager
\* every entry has used + remaining = daily_limit and used is the sum of the
\* costs of its request list.
C27_UsedPlusRemainingIsLimit ==
    \A q \in Entries(quota_status) :
        LET entry == quota_status[q[1]][q[2]]
        IN  /\ entry.used + entry.remaining = quota_limits[q[1]].daily_limit
            /\ entry.used = SumCosts(entry.requests)

\* two requests were recorded in one entry: used is their sum, 1001, and
\* remaining what is left of the 10,000 units
C27_Witness ==
    /\ quota_call.name = "use_quota"
    /\ FirstDay \in DOMAIN DictOf(quota_status, "youtube")
    /\ Len(quota_status["youtube"][FirstDay].requests) = 2
    /\ quota_status["youtube"][FirstDay].used = 1001
    /\ quota_status["youtube"][FirstDay].remaining = 8999

\* C28: a use_quota call that returns False (unknown API, or a cost above the
\* remaining quota) leaves quota_status as it was and saves nothing: the file
\* and the number of writes are unchanged.
C28_RefusedUseChangesNothing ==
    [][(quota_call' # quota_call /\ quota_call'.name = "use_quota"
            /\ ~quota_call'.returned)
        => UNCHANGED <<quota_status, quota_file, saves>>]_vars

\* a request of 1001 units against the 1000 of kopis was refused after an
\* accepted one had been saved
C28_Witness ==
    /\ quota_call = [name |-> "use_quota", api |-> "kopis", cost |-> 1001,
                     returned |-> FALSE]
    /\ saves = 1
    /\ quota_file = json_dump(quota_status)

---------------------------------------------------------------------------
(* schedule_requests, statement by statement: the call up to the test of   *)
(* line 175, one iteration of the while loop, and the return of line 191.  *)

\* the most items a caller asks for
MaxItems == 3

\* a loop whose batch size is positive ends within MaxItems iterations; the
\* model follows a loop for one iteration more
MaxBatches == MaxItems + 1

OperationTypes == {"search", "channel_info"}

\* the quota states schedule_requests is called in: a fresh manager after one
\* use_quota call with this API and cost
ScheduleHistories ==
    {[api |-> "youtube", cost |-> 1], [api |-> "youtube", cost |-> 9950],
     [api |-> "kopis", cost |-> 998], [api |-> "kopis", cost |-> 1000],
     [api |-> "kopis", cost |-> 1001]}

InitSchedule ==
    /\ today \in FirstDay..LastDay
    /\ \E c \in ScheduleHistories :
          \E r \in {use_quota(load_quota_status(QuotaNoFile, FirstDay), today,
                              c.api, "search", c.cost)} :
              /\ quota_status = r.status
              /\ quota_file = IF r.saved THEN json_dump(r.status) ELSE QuotaNoFile
              /\ saves = IF r.saved THEN 1 ELSE 0
              /\ quota_call = [name |-> "use_quota", api |-> c.api, cost |-> c.cost,
                               returned |-> r.returned]
    /\ ScheduleVarsIdle
    /\ RetryVarsIdle
    /\ SchedulerVarsIdle
    /\ ScoreVarsIdle
    /\ BatchVarsIdle
    /\ CompareVarsIdle
    /\ TrendVarsIdle
    /\ ReportVarsIdle

\* the call: lines 173-181.  get_quota_status raises KeyError for an API
\* without limits.
ScheduleRequests ==
    /\ pc = "idle"
    /\ \E api \in APIs \cup {"instagram"}, total_items \in 0..MaxItems,
          operation_type \in OperationTypes :
          /\ request' = [api |-> api, total_items |-> total_items,
                         operation_type |-> operation_type]
          /\ IF api \notin APIs
             THEN /\ scheduled' = Raised("KeyError", 1)
                  /\ pc' = "done"
                  /\ UNCHANGED <<optimal_batch, remaining_items, batches>>
             ELSE \E optimal \in {optimize_batch_size(quota_status, today, api,
                                                      total_items, operation_type)} :
                      /\ optimal_batch' = optimal
                      /\ IF optimal >= total_items
                         THEN /\ scheduled' = Returned(<<[batch_size |-> total_items,
                                                         delay |-> 0]>>)
                              /\ pc' = "done"
                              /\ UNCHANGED <<remaining_items, batches>>
                         ELSE /\ batches' = <<>>
                              /\ remaining_items' = total_items
                              /\ pc' = "loop"
                              /\ UNCHANGED scheduled
    /\ UNCHANGED <<quotaVars, retryVars, schedulerVars, scoringVars>>

\* one iteration of the while loop, lines 183-189
ScheduleLoop ==
    /\ pc = "loop"
    /\ remaining_items > 0
    /\ Len(batches) < MaxBatches
    /\ \E batch_size \in {PyMinInt(optimal_batch, remaining_items)} :
          /\ batches' = Append(batches, [batch_size |-> batch_size,
                                         delay |-> IF Len(batches) > 0 THEN 1 ELSE 0])
          /\ remaining_items' = remaining_items - batch_size
    /\ UNCHANGED <<request, pc, optimal_batch, scheduled, quotaVars, retryVars,
                   schedulerVars, scoringVars>>

\* the loop test fails: line 191
ScheduleReturn ==
    /\ pc = "loop"
    /\ ~(remaining_items > 0)
    /\ scheduled' = Returned(batches)
    /\ pc' = "done"
    /\ UNCHANGED <<request, optimal_batch, remaining_items, batches, quotaVars,
                   retryVars, schedulerVars, scoringVars>>

NextSchedule == ScheduleRequests \/ ScheduleLoop \/ ScheduleReturn

\* the call runs on its own thread of control: a statement that can run, runs
SpecSchedule == InitSchedule /\ [][NextSchedule]_vars /\ WF_vars(NextSchedule)

---------------------------------------------------------------------------
(* Claims about schedule_requests (SpecSchedule) *)

RECURSIVE SumBatchSizes(_)
SumBatchSizes(bs) ==
    IF bs = <<>> THEN 0 ELSE Head(bs).batch_size + SumBatchSizes(Tail(bs))

\* C29: schedule_requests terminates for every API, operation type,
\* total_items >= 0 and reachable quota state, and the batch sizes it returns
\* are all positive and add up to total_items.  Termination: the batch size
\* is the same min(optimal_batch, remaining_items) in every iteration, so the
\* loop ends exactly when each iteration leaves fewer remaining_items than it
\* found.
C29_ScheduleTerminatesWithPositiveBatches ==
    /\ [][(pc = "loop" /\ pc' = "loop") => remaining_items' < remaining_items]_vars
    /\ [](scheduled.kind = "return" =>
              /\ \A i \in 1..Len(scheduled.value) : scheduled.value[i].batch_size > 0
              /\ SumBatchSizes(scheduled.value) = request.total_items)

=============================================================================
